---- MODULE Spec2Model ----
(***************************************************************************)
(* Model of rhc (repository health check): the check registry, the scan   *)
(* orchestration loop of rhc/scanner.py and the scoring functions of      *)
(* rhc/scoring.py.                                                         *)
(*                                                                         *)
(* Three specifications are defined over one set of variables:            *)
(*   Spec      the scan state machine (scanner.scan), one scan per run;   *)
(*   FnSpec    single calls of functions (calculate_score, create_summary,*)
(*             filter_checks, check_policy_violation, GitInfo.from_repo,  *)
(*             read_text_safe, ...) on inputs drawn from bounded sets;    *)
(*   CacheSpec one FileIndex queried while the tree under it changes.     *)
(* FairSpec is Spec with weak fairness, used for the liveness property.   *)
(***************************************************************************)
EXTENDS Integers, Sequences, FiniteSets, TLC

VARIABLES
    pc,        \* position of scan(): "build", "select", "checks", "done", "raised"
    config,    \* Config: [skip, only, weights, debug]
    checks,    \* the filtered check list of scanner.py:32 (sequence of check ids)
    idx,       \* loop position in `for check in checks` (1-based, next to run)
    findings,  \* the local list `findings` of scan()
    ran,       \* history: for every executed check, what its run() did
    log,       \* history: debug lines printed by the except branch (check ids)
    report,    \* the returned Report, or NoReport
    call,      \* FnSpec: the function called and its arguments
    ret,       \* FnSpec: the value returned
    ctx,       \* the Context of the scan: [built, root_path, git, stack]; its
               \* config attribute is the object `config`
    file_index \* a FileIndex and the tree under its root: [tree, cache]

vars == <<pc, config, checks, idx, findings, ran, log, report, call, ret, ctx, file_index>>

scanVars == <<pc, config, checks, idx, findings, ran, log, report, ctx, file_index>>

fnVars == <<call, ret>>

-----------------------------------------------------------------------------
(* Bounds of the model *)

\* longest finding list handed to a pure function
MaxLen == 2

\* longest check list handed to filter_checks in FnSpec
MaxChecks == 3

\* most checks of one scan that do not pass (finding or exception)
MaxIssues == 3

\* most ids in the skip list / the only list of a configuration
MaxSkip == 1

MaxOnly == 1

-----------------------------------------------------------------------------
(* types.py *)

\* list(Severity): the members in definition order
Severity == <<"info", "low", "medium", "high", "critical">>

SeverityValues == {Severity[i] : i \in 1..Len(Severity)}

\* list(f.severity.__class__).index(f.severity), 0-based as in Python
SeverityIndex(s) == (CHOOSE i \in 1..Len(Severity) : Severity[i] = s) - 1

\* Optional values: None, and a present value v
None == <<>>

Some(v) == <<v>>

Category == {"docs", "ci", "tests", "deps", "security", "hygiene", "release"}

-----------------------------------------------------------------------------
(* checks/__init__.py: the registry *)

\* ALL_CHECKS, by check id, in registration order
ALL_CHECKS ==
    << "DOC.README_PRESENT", "DOC.LICENSE_PRESENT", "DOC.CONTRIBUTING_PRESENT",
       "DOC.SECURITY_POLICY_PRESENT",
       "CI.CONFIG_PRESENT", "CI.BADGES_PRESENT",
       "TESTS.DETECTED", "TESTS.CI_RUNS_TESTS", "QUALITY.LINTER_PRESENT",
       "DEPS.LOCKFILE_PRESENT", "DEPS.OUTDATED_HINTS", "DEPS.MULTIPLE_PACKAGE_MANAGERS",
       "SEC.SECRETS_SUSPECTED", "SEC.DEPENDABOT_PRESENT", "SEC.CODEOWNERS_PRESENT",
       "HYG.GITIGNORE_PRESENT", "HYG.EDITORCONFIG_PRESENT", "REL.SEMVER_TAGS_PRESENT",
       "REL.CHANGELOG_PRESENT" >>

CheckIds == {ALL_CHECKS[i] : i \in 1..Len(ALL_CHECKS)}

\* get_all_checks(): one instance of every registered check, registry order
get_all_checks == ALL_CHECKS

\* CheckInfo of every check class: category and default_weight; `severity`
\* is the severity its run() gives the finding that carries the weight
CheckInfo ==
    [id \in CheckIds |->
       CASE id = "DOC.README_PRESENT"             -> [category |-> "docs",     default_weight |-> -6,  severity |-> "high"]
         [] id = "DOC.LICENSE_PRESENT"            -> [category |-> "docs",     default_weight |-> -4,  severity |-> "medium"]
         [] id = "DOC.CONTRIBUTING_PRESENT"       -> [category |-> "docs",     default_weight |-> -3,  severity |-> "low"]
         [] id = "DOC.SECURITY_POLICY_PRESENT"    -> [category |-> "docs",     default_weight |-> -3,  severity |-> "low"]
         [] id = "CI.CONFIG_PRESENT"              -> [category |-> "ci",       default_weight |-> -10, severity |-> "high"]
         [] id = "CI.BADGES_PRESENT"              -> [category |-> "ci",       default_weight |-> -2,  severity |-> "info"]
         [] id = "TESTS.DETECTED"                 -> [category |-> "tests",    default_weight |-> -8,  severity |-> "high"]
         [] id = "TESTS.CI_RUNS_TESTS"            -> [category |-> "tests",    default_weight |-> -5,  severity |-> "medium"]
         [] id = "QUALITY.LINTER_PRESENT"         -> [category |-> "tests",    default_weight |-> -4,  severity |-> "medium"]
         [] id = "DEPS.LOCKFILE_PRESENT"          -> [category |-> "deps",     default_weight |-> -6,  severity |-> "medium"]
         [] id = "DEPS.OUTDATED_HINTS"            -> [category |-> "deps",     default_weight |-> -3,  severity |-> "medium"]
         [] id = "DEPS.MULTIPLE_PACKAGE_MANAGERS" -> [category |-> "deps",     default_weight |-> -4,  severity |-> "medium"]
         [] id = "SEC.SECRETS_SUSPECTED"          -> [category |-> "security", default_weight |-> -10, severity |-> "critical"]
         [] id = "SEC.DEPENDABOT_PRESENT"         -> [category |-> "security", default_weight |-> -3,  severity |-> "low"]
         [] id = "SEC.CODEOWNERS_PRESENT"         -> [category |-> "security", default_weight |-> -3,  severity |-> "low"]
         [] id = "HYG.GITIGNORE_PRESENT"          -> [category |-> "hygiene",  default_weight |-> -4,  severity |-> "medium"]
         [] id = "HYG.EDITORCONFIG_PRESENT"       -> [category |-> "hygiene",  default_weight |-> -2,  severity |-> "info"]
         [] id = "REL.SEMVER_TAGS_PRESENT"        -> [category |-> "release",  default_weight |-> -3,  severity |-> "low"]
         [] id = "REL.CHANGELOG_PRESENT"          -> [category |-> "release",  default_weight |-> -3,  severity |-> "low"]]

\* a filter in which a non-empty only list overrides the skip list
RECURSIVE filter_loop_only_overrides_skip(_, _, _, _)
filter_loop_only_overrides_skip(cs, skip, only, filtered) ==
    IF cs = <<>> THEN filtered
    ELSE LET check == Head(cs)
             keep == IF only # {} THEN check \in only ELSE check \notin skip
         IN filter_loop_only_overrides_skip(Tail(cs), skip, only,
                IF keep THEN Append(filtered, check) ELSE filtered)

\* a filter that never looks at the skip list
RECURSIVE filter_loop_without_skip(_, _, _, _)
filter_loop_without_skip(cs, skip, only, filtered) ==
    IF cs = <<>> THEN filtered
    ELSE LET check == Head(cs)
             keep == only = {} \/ check \in only
         IN filter_loop_without_skip(Tail(cs), skip, only,
                IF keep THEN Append(filtered, check) ELSE filtered)

\* a filter that puts each kept check in front of the kept ones
RECURSIVE filter_loop_prepends(_, _, _, _)
filter_loop_prepends(cs, skip, only, filtered) ==
    IF cs = <<>> THEN filtered
    ELSE LET check == Head(cs)
             keep == check \notin skip /\ (only = {} \/ check \in only)
         IN filter_loop_prepends(Tail(cs), skip, only,
                IF keep THEN <<check>> \o filtered ELSE filtered)

\* a filter that takes an only list naming no registered check for an empty one
RECURSIVE filter_loop_drops_unknown_only(_, _, _, _)
filter_loop_drops_unknown_only(cs, skip, only, filtered) ==
    IF cs = <<>> THEN filtered
    ELSE LET check == Head(cs)
             keep == check \notin skip /\ (only \cap CheckIds = {} \/ check \in only)
         IN filter_loop_drops_unknown_only(Tail(cs), skip, only,
                IF keep THEN Append(filtered, check) ELSE filtered)

\* `x in lst` for the skip and only lists, which the code only tests for
\* truthiness and membership: they are modelled as sets of ids
RECURSIVE filter_loop(_, _, _, _)
filter_loop(cs, skip, only, filtered) ==
    IF cs = <<>> THEN filtered
    ELSE LET check == Head(cs) IN
         IF skip # {} /\ check \in skip THEN filter_loop(Tail(cs), skip, only, filtered)
         ELSE IF only # {} /\ check \notin only THEN filter_loop(Tail(cs), skip, only, filtered)
         ELSE filter_loop(Tail(cs), skip, only, Append(filtered, check))

\* filter_checks(checks, skip, only)
filter_checks(cs, skip, only) == filter_loop(cs, skip, only, <<>>)

-----------------------------------------------------------------------------
(* checks/base.py and the check bodies *)

\* BaseCheck.get_weight: config_weights.get(self.info.id, self.info.default_weight)
get_weight(id, config_weights) ==
    IF id \in DOMAIN config_weights THEN config_weights[id]
    ELSE CheckInfo[id].default_weight

\* What a check finds in the repository when it runs:
\*   "pass"         the files it looks for are there: run returns []
\*   "finding"      the gap is there: run returns its one finding
\*   "finding_low"  OutdatedHintsCheck only: lockfile older than 180 days
\*                  but not 365: severity low, fixed impact -1
\*   "raises"       run raises an Exception
Verdicts(id) ==
    IF id = "DEPS.OUTDATED_HINTS" THEN {"pass", "finding", "finding_low", "raises"}
    ELSE {"pass", "finding", "raises"}

\* a run that returns one finding for each of two offending files
run_finding_per_file(id, verdict, config_weights) ==
    IF verdict = "finding" THEN
        << [id |-> id, severity |-> CheckInfo[id].severity,
            category |-> CheckInfo[id].category,
            score_impact |-> get_weight(id, config_weights)],
           [id |-> id, severity |-> CheckInfo[id].severity,
            category |-> CheckInfo[id].category,
            score_impact |-> get_weight(id, config_weights)] >>
    ELSE <<>>

\* check.run(ctx) for a verdict that returns: the list of findings
run(id, verdict, config_weights) ==
    IF verdict = "finding" THEN
        << [id |-> id, severity |-> CheckInfo[id].severity,
            category |-> CheckInfo[id].category,
            score_impact |-> get_weight(id, config_weights)] >>
    ELSE IF verdict = "finding_low" THEN
        << [id |-> id, severity |-> "low",
            category |-> CheckInfo[id].category,
            score_impact |-> -1] >>
    ELSE <<>>

-----------------------------------------------------------------------------
(* scoring.py *)

Max(a, b) == IF a >= b THEN a ELSE b

Min(a, b) == IF a <= b THEN a ELSE b

\* a loop that clamps the running score after every finding
RECURSIVE score_loop_clamps_each_step(_, _)
score_loop_clamps_each_step(score, fs) ==
    IF fs = <<>> THEN score
    ELSE score_loop_clamps_each_step(
             Max(0, Min(100, score + Head(fs).score_impact)), Tail(fs))

\* lines 12-15: score = 100; for finding in findings: score += finding.score_impact
RECURSIVE score_loop(_, _)
score_loop(score, fs) ==
    IF fs = <<>> THEN score
    ELSE score_loop(score + Head(fs).score_impact, Tail(fs))

\* a score without the lower clamp
calculate_score_no_floor(fs) == Min(100, score_loop(100, fs))

\* calculate_score(findings): lines 6-17
calculate_score(fs) == Max(0, Min(100, score_loop(100, fs)))

\* grade bands with exclusive lower bounds
calculate_grade_exclusive(score) ==
    IF score > 90 THEN "A"
    ELSE IF score > 80 THEN "B"
    ELSE IF score > 70 THEN "C"
    ELSE IF score > 55 THEN "D"
    ELSE "F"

\* calculate_grade(score)
calculate_grade(score) ==
    IF score >= 90 THEN "A"
    ELSE IF score >= 80 THEN "B"
    ELSE IF score >= 70 THEN "C"
    ELSE IF score >= 55 THEN "D"
    ELSE "F"

\* a count that has keys only for the severities that occur
count_by_severity_present_only(fs) ==
    [s \in {fs[i].severity : i \in 1..Len(fs)} |->
        Cardinality({i \in 1..Len(fs) : fs[i].severity = s})]

\* count_by_severity(findings): every severity is a key, zero included
count_by_severity(fs) ==
    [s \in SeverityValues |-> Cardinality({i \in 1..Len(fs) : fs[i].severity = s})]

\* count_by_category(findings): only the categories that occur are keys
count_by_category(fs) ==
    [c \in {fs[i].category : i \in 1..Len(fs)} |->
        Cardinality({i \in 1..Len(fs) : fs[i].category = c})]

\* create_summary(findings)
create_summary(fs) ==
    LET score == calculate_score(fs) IN
    [total_score |-> score,
     grade |-> calculate_grade(score),
     counts_by_severity |-> count_by_severity(fs),
     counts_by_category |-> count_by_category(fs)]

\* str comparison: a Severity is a str, and of its comparisons only __lt__ is
\* overridden (types.py:17-19); >= is the one of str, on the values
Alphabet ==
    <<"a", "b", "c", "d", "e", "f", "g", "h", "i", "j", "k", "l", "m",
      "n", "o", "p", "q", "r", "s", "t", "u", "v", "w", "x", "y", "z">>

\* the code point order of lower-case letters
Ord(c) == CHOOSE i \in 1..Len(Alphabet) : Alphabet[i] = c

\* the characters of the Severity values
SeverityChars ==
    [s \in SeverityValues |->
        CASE s = "info" -> <<"i", "n", "f", "o">>
          [] s = "low" -> <<"l", "o", "w">>
          [] s = "medium" -> <<"m", "e", "d", "i", "u", "m">>
          [] s = "high" -> <<"h", "i", "g", "h">>
          [] s = "critical" -> <<"c", "r", "i", "t", "i", "c", "a", "l">>]

\* str.__lt__: lexicographic order
RECURSIVE str_lt(_, _)
str_lt(a, b) ==
    IF b = <<>> THEN FALSE
    ELSE IF a = <<>> THEN TRUE
    ELSE IF Head(a) # Head(b) THEN Ord(Head(a)) < Ord(Head(b))
    ELSE str_lt(Tail(a), Tail(b))

\* finding.severity >= fail_on as Python evaluates it: str.__ge__
severity_ge(a, b) == ~str_lt(SeverityChars[a], SeverityChars[b])

\* the fail_on loop of lines 85-87: the first finding that trips, or 0
RECURSIVE fail_on_loop(_, _, _)
fail_on_loop(fl, fail_on, i) ==
    IF i > Len(fl) THEN 0
    ELSE IF severity_ge(fl[i].severity, fail_on) THEN i
    ELSE fail_on_loop(fl, fail_on, i + 1)

\* a min_score rule that also fires on an equal score
check_policy_violation_on_equal(fl, summary, min_score, fail_on) ==
    IF min_score # None /\ summary.total_score <= min_score[1]
    THEN [violated |-> TRUE,
          reason |-> <<"Score", summary.total_score, "is below minimum", min_score[1]>>]
    ELSE LET hit == IF fail_on = None THEN 0 ELSE fail_on_loop(fl, fail_on[1], 1)
         IN  IF hit > 0
             THEN [violated |-> TRUE,
                   reason |-> <<"Found", fl[hit].severity, "severity issue:", fl[hit].id>>]
             ELSE [violated |-> FALSE, reason |-> <<>>]

\* check_policy_violation(findings, summary, min_score, fail_on): the tuple
\* (violated, reason); the reason is kept as the parts of the f-string
check_policy_violation(fl, summary, min_score, fail_on) ==
    IF min_score # None /\ summary.total_score < min_score[1]
    THEN [violated |-> TRUE,
          reason |-> <<"Score", summary.total_score, "is below minimum", min_score[1]>>]
    ELSE LET hit == IF fail_on = None THEN 0 ELSE fail_on_loop(fl, fail_on[1], 1)
         IN  IF hit > 0
             THEN [violated |-> TRUE,
                   reason |-> <<"Found", fl[hit].severity, "severity issue:", fl[hit].id>>]
             ELSE [violated |-> FALSE, reason |-> <<>>]

-----------------------------------------------------------------------------
(* scanner.py:50, the sort of the findings *)

\* a key that forgets the minus sign: lowest severity first
sort_key_ascending(f) == << SeverityIndex(f.severity), f.score_impact >>

\* the sort key: (-list(Severity).index(f.severity), f.score_impact)
sort_key(f) == << 0 - SeverityIndex(f.severity), f.score_impact >>

\* tuple comparison k1 < k2 as Python compares tuples
key_lt(k1, k2) == k1[1] < k2[1] \/ (k1[1] = k2[1] /\ k1[2] < k2[2])

\* an insertion that goes in front of the elements with an equal key
RECURSIVE insert_before_equal(_, _)
insert_before_equal(f, sorted) ==
    IF sorted = <<>> THEN <<f>>
    ELSE IF ~key_lt(sort_key(Head(sorted)), sort_key(f)) THEN <<f>> \o sorted
    ELSE <<Head(sorted)>> \o insert_before_equal(f, Tail(sorted))

\* list.sort is stable: an element goes behind every element whose key is
\* not greater than its own
RECURSIVE insert_stable(_, _)
insert_stable(f, sorted) ==
    IF sorted = <<>> THEN <<f>>
    ELSE IF key_lt(sort_key(f), sort_key(Head(sorted))) THEN <<f>> \o sorted
    ELSE <<Head(sorted)>> \o insert_stable(f, Tail(sorted))

RECURSIVE sort_loop(_, _)
sort_loop(fs, sorted) ==
    IF fs = <<>> THEN sorted
    ELSE sort_loop(Tail(fs), insert_stable(Head(fs), sorted))

\* findings.sort(key=...)
sort_findings(fs) == sort_loop(fs, <<>>)

-----------------------------------------------------------------------------
(* context.py: FileIndex *)

\* the paths a repository of the model may hold, relative to its root
SamplePaths == {"README.md", "setup.py", "package-lock.json", ".travis.yml"}

\* an entry of the tree: nothing, a regular file, or a symbolic link
EntryKinds == {"absent", "file", "symlink"}

Trees == [SamplePaths -> EntryKinds]

\* pathlib glob matching, tabulated for the wildcard patterns and the sample
\* paths; a pattern without wildcard matches the path of the same name
GlobTable ==
    {<<"*.py", "setup.py">>, <<"README*", "README.md">>, <<"*.md", "README.md">>}

Matches(pattern, path) == pattern = path \/ <<pattern, path>> \in GlobTable

\* self.root.glob(pattern): symbolic links are yielded like files
root_glob(tree, pattern) ==
    {path \in DOMAIN tree : tree[path] # "absent" /\ Matches(pattern, path)}

EmptyCache == [p \in {} |-> FALSE]

\* FileIndex.__init__ over a tree: the cache starts empty
FileIndex(tree) == [tree |-> tree, cache |-> EmptyCache]

\* _glob_exists that globs again and overwrites the cached entry
glob_exists_uncached(f, pattern) ==
    LET result == root_glob(f.tree, pattern) # {}
    IN  [result |-> result,
         fs |-> [f EXCEPT !.cache =
                    [p \in DOMAIN f.cache \cup {pattern} |->
                        IF p = pattern THEN result ELSE f.cache[p]]]]

\* _glob_exists(pattern): the result, and the FileIndex after the call.  The
\* cache key "exists:" + pattern is represented by the pattern.
glob_exists(f, pattern) ==
    IF pattern \in DOMAIN f.cache
    THEN [result |-> f.cache[pattern], fs |-> f]
    ELSE LET result == root_glob(f.tree, pattern) # {}
         IN  [result |-> result,
              fs |-> [f EXCEPT !.cache =
                         [p \in DOMAIN f.cache \cup {pattern} |->
                             IF p = pattern THEN result ELSE f.cache[p]]]]

\* exists(*patterns): the patterns are tried in order up to the first hit
RECURSIVE exists(_, _)
exists(f, patterns) ==
    IF patterns = <<>> THEN [result |-> FALSE, fs |-> f]
    ELSE LET r == glob_exists(f, Head(patterns))
         IN  IF r.result THEN [result |-> TRUE, fs |-> r.fs]
             ELSE exists(r.fs, Tail(patterns))

\* glob(pattern): symbolic links are left out (follow_symlinks is False)
glob(f, pattern) ==
    {path \in root_glob(f.tree, pattern) : f.tree[path] # "symlink"}

\* bytes of a file: ASCII "H", line feed, carriage return, and 0xFF, which
\* occurs in no UTF-8 encoding
SampleBytes == {72, 10, 13, 255}

\* the Unicode replacement character U+FFFD
REPLACEMENT == 65533

\* bytes.decode("utf-8", errors="replace") on the sample bytes: an ASCII byte
\* is its own code point, an invalid byte becomes U+FFFD
decode_replace(bytes) ==
    [i \in 1..Len(bytes) |-> IF bytes[i] < 128 THEN bytes[i] ELSE REPLACEMENT]

\* whether strict UTF-8 decoding of the bytes fails
undecodable(bytes) == \E i \in 1..Len(bytes) : bytes[i] >= 128

\* text mode with newline=None: "\r\n" and "\r" are read as "\n"
RECURSIVE universal_newlines(_)
universal_newlines(text) ==
    IF text = <<>> THEN <<>>
    ELSE IF Head(text) = 13
         THEN IF Len(text) > 1 /\ text[2] = 10
              THEN <<10>> \o universal_newlines(Tail(Tail(text)))
              ELSE <<10>> \o universal_newlines(Tail(text))
         ELSE <<Head(text)>> \o universal_newlines(Tail(text))

\* default of the max_size parameter: 1 MiB
DEFAULT_MAX_SIZE == 1024 * 1024

\* read_text_safe with errors="strict": undecodable bytes give None
read_text_safe_strict(file, max_size) ==
    IF ~file.stat_ok THEN [raised |-> FALSE, value |-> None]
    ELSE IF file.st_size > max_size THEN [raised |-> FALSE, value |-> None]
    ELSE IF ~file.read_ok \/ undecodable(file.bytes)
         THEN [raised |-> FALSE, value |-> None]
    ELSE [raised |-> FALSE,
          value |-> Some(universal_newlines(decode_replace(file.bytes)))]

\* read_text_safe(path, max_size).  file is what the system calls on the path
\* give: whether stat() succeeds and the size it reports, whether the read
\* succeeds and the bytes it delivers.
read_text_safe(file, max_size) ==
    IF ~file.stat_ok THEN [raised |-> FALSE, value |-> None]
    ELSE IF file.st_size > max_size THEN [raised |-> FALSE, value |-> None]
    ELSE IF ~file.read_ok THEN [raised |-> FALSE, value |-> None]
    ELSE [raised |-> FALSE,
          value |-> Some(universal_newlines(decode_replace(file.bytes)))]

\* file_stats(path): None when stat() fails
file_stats(file) ==
    IF ~file.stat_ok THEN None
    ELSE Some([size |-> file.st_size, mtime |-> file.mtime,
               is_symlink |-> file.is_symlink])

-----------------------------------------------------------------------------
(* context.py: GitInfo, StackInfo, Context *)

\* Python strings that the code slices or splits are sequences of characters
Whitespace == {" ", "\n"}

RECURSIVE lstrip(_)
lstrip(s) ==
    IF s # <<>> /\ Head(s) \in Whitespace THEN lstrip(Tail(s)) ELSE s

RECURSIVE rstrip(_)
rstrip(s) ==
    IF s # <<>> /\ s[Len(s)] \in Whitespace
    THEN rstrip(SubSeq(s, 1, Len(s) - 1)) ELSE s

\* str.strip()
strip(s) == rstrip(lstrip(s))

\* s[:n]
prefix(s, n) == SubSeq(s, 1, Min(n, Len(s)))

\* s.split("\n"): the pieces between line feeds, empty pieces included
RECURSIVE split_loop(_, _, _)
split_loop(s, piece, pieces) ==
    IF s = <<>> THEN Append(pieces, piece)
    ELSE IF Head(s) = "\n" THEN split_loop(Tail(s), <<>>, Append(pieces, piece))
    ELSE split_loop(Tail(s), Append(piece, Head(s)), pieces)

split_lines(s) == split_loop(s, <<>>, <<>>)

\* [t for t in pieces if t]
non_empty(pieces) == SelectSeq(pieces, LAMBDA t : t # <<>>)

\* what the three git subcommands print when they succeed
BranchOut == <<"m", "a", "i", "n", "\n">>

HeadOut ==
    <<"4", "f", "2", "a", "9", "c", "0", "d", "7", "e", "1", "b", "8", "3",
      "6", "5", "a", "0", "c", "4", "\n">>

TagsOut == <<"v", "1", "\n", "v", "2", "\n">>

Stdout == <<BranchOut, HeadOut, TagsOut>>

\* how a subprocess.run call ends: exit status 0, another exit status,
\* TimeoutExpired, FileNotFoundError (no git executable), or another OSError
Outcomes == {"ok", "nonzero", "timeout", "missing", "oserror"}

\* the repository as git sees it: whether .git exists, and how the three
\* subcommands end when they are run
GitEnvs == [git_dir : BOOLEAN, cmds : [1..3 -> Outcomes]]

\* GitInfo(): the defaults of the dataclass
DefaultGitInfo ==
    [is_repo |-> FALSE, branch |-> None, head_sha |-> None, tags |-> <<>>,
     tracked_files |-> {}]

\* the assignment that follows subcommand k when it exits with status 0
store(info, k) ==
    CASE k = 1 -> [info EXCEPT !.branch = Some(strip(Stdout[1]))]
      [] k = 2 -> [info EXCEPT !.head_sha = Some(prefix(strip(Stdout[2]), 12))]
      [] k = 3 -> [info EXCEPT !.tags = non_empty(split_lines(strip(Stdout[3])))]

\* a try block in which a failing subcommand discards what was read
RECURSIVE from_repo_try_resets(_, _, _)
from_repo_try_resets(info, env, k) ==
    IF k > 3 THEN [raised |-> FALSE, info |-> info]
    ELSE CASE env.cmds[k] = "ok" -> from_repo_try_resets(store(info, k), env, k + 1)
           [] env.cmds[k] = "nonzero" -> from_repo_try_resets(info, env, k + 1)
           [] env.cmds[k] \in {"timeout", "missing"} ->
                [raised |-> FALSE, info |-> DefaultGitInfo]
           [] env.cmds[k] = "oserror" -> [raised |-> TRUE, info |-> info]

\* lines 110-146: the try block from subcommand k on.  TimeoutExpired and
\* FileNotFoundError end the block and keep what was assigned before; any
\* other exception leaves from_repo.
RECURSIVE from_repo_try(_, _, _)
from_repo_try(info, env, k) ==
    IF k > 3 THEN [raised |-> FALSE, info |-> info]
    ELSE CASE env.cmds[k] = "ok" -> from_repo_try(store(info, k), env, k + 1)
           [] env.cmds[k] = "nonzero" -> from_repo_try(info, env, k + 1)
           [] env.cmds[k] \in {"timeout", "missing"} ->
                [raised |-> FALSE, info |-> info]
           [] env.cmds[k] = "oserror" -> [raised |-> TRUE, info |-> info]

\* GitInfo.from_repo(root_path)
from_repo(env) ==
    IF ~env.git_dir THEN [raised |-> FALSE, info |-> DefaultGitInfo]
    ELSE from_repo_try([DefaultGitInfo EXCEPT !.is_repo = TRUE], env, 1)

lang_indicators ==
    << <<"Python", <<"*.py", "pyproject.toml", "setup.py", "requirements.txt">> >>,
       <<"JavaScript", <<"*.js", "*.jsx", "package.json">> >>,
       <<"TypeScript", <<"*.ts", "*.tsx", "tsconfig.json">> >>,
       <<"Go", <<"*.go", "go.mod">> >>,
       <<"Rust", <<"*.rs", "Cargo.toml">> >>,
       <<"Java", <<"*.java", "pom.xml", "build.gradle">> >>,
       <<"Ruby", <<"*.rb", "Gemfile">> >>,
       <<"PHP", <<"*.php", "composer.json">> >>,
       <<"C#", <<"*.cs", "*.csproj">> >> >>

pm_indicators ==
    << <<"npm", <<"package-lock.json">> >>,
       <<"yarn", <<"yarn.lock">> >>,
       <<"pnpm", <<"pnpm-lock.yaml">> >>,
       <<"pip", <<"requirements.txt">> >>,
       <<"poetry", <<"poetry.lock">> >>,
       <<"uv", <<"uv.lock">> >>,
       <<"pipenv", <<"Pipfile.lock">> >>,
       <<"cargo", <<"Cargo.lock">> >>,
       <<"go modules", <<"go.sum">> >>,
       <<"maven", <<"pom.xml">> >>,
       <<"gradle", <<"build.gradle", "build.gradle.kts">> >>,
       <<"composer", <<"composer.lock">> >>,
       <<"bundler", <<"Gemfile.lock">> >> >>

ci_indicators ==
    << <<"GitHub Actions", <<".github/workflows/*.yml", ".github/workflows/*.yaml">> >>,
       <<"GitLab CI", <<".gitlab-ci.yml">> >>,
       <<"CircleCI", <<".circleci/config.yml">> >>,
       <<"Travis CI", <<".travis.yml">> >>,
       <<"Azure Pipelines", <<"azure-pipelines.yml">> >>,
       <<"Jenkins", <<"Jenkinsfile">> >> >>

\* one `for name, patterns in indicators.items()` loop of detect: the names
\* whose patterns exist, in table order, and the FileIndex after the calls
RECURSIVE detect_loop(_, _, _)
detect_loop(f, indicators, names) ==
    IF indicators = <<>> THEN [names |-> names, fs |-> f]
    ELSE LET r == exists(f, Head(indicators)[2])
         IN  detect_loop(r.fs, Tail(indicators),
                         IF r.result THEN Append(names, Head(indicators)[1])
                         ELSE names)

\* StackInfo.detect(fs)
detect(f) ==
    LET langs == detect_loop(f, lang_indicators, <<>>)
        pms == detect_loop(langs.fs, pm_indicators, <<>>)
        cis == detect_loop(pms.fs, ci_indicators, <<>>)
    IN  [info |-> [languages |-> langs.names, package_managers |-> pms.names,
                   ci_providers |-> cis.names],
         fs |-> cis.fs]

DefaultStackInfo ==
    [languages |-> <<>>, package_managers |-> <<>>, ci_providers |-> <<>>]

\* the resolved path of the repository under scan
RootPath == "/repo"

\* no Context has been built
NoContext ==
    [built |-> FALSE, root_path |-> "", git |-> DefaultGitInfo,
     stack |-> DefaultStackInfo]

\* Context.build(path, config) over a tree and a git environment: the Context
\* and its FileIndex, or the exception of from_repo
build(tree, env) ==
    LET git == from_repo(env)
        stack == detect(FileIndex(tree))
    IN  IF git.raised
        THEN [raised |-> TRUE, ctx |-> NoContext, fs |-> FileIndex(tree)]
        ELSE [raised |-> FALSE,
              ctx |-> [built |-> TRUE, root_path |-> RootPath,
                       git |-> git.info, stack |-> stack.info],
              fs |-> stack.fs]

-----------------------------------------------------------------------------
(* checks/deps.py: OutdatedHintsCheck *)

\* deps.py:113-124, the lockfile names in the order they are tried
lockfiles ==
    <<"package-lock.json", "yarn.lock", "pnpm-lock.yaml", "poetry.lock",
      "Pipfile.lock", "uv.lock", "go.sum", "Cargo.lock", "Gemfile.lock",
      "composer.lock">>

\* seconds of a day
DAY == 24 * 60 * 60

\* a lockfile loop whose comparisons include the boundary
RECURSIVE lockfile_loop_inclusive(_, _, _, _, _)
lockfile_loop_inclusive(f, stat, six_months_ago, one_year_ago, i) ==
    IF i > Len(lockfiles) THEN "pass"
    ELSE LET files == glob(f, lockfiles[i])
         IN  IF files = {}
             THEN lockfile_loop_inclusive(f, stat, six_months_ago, one_year_ago, i + 1)
             ELSE LET stats == file_stats(stat[CHOOSE path \in files : TRUE])
                  IN  IF stats = None
                      THEN lockfile_loop_inclusive(f, stat, six_months_ago, one_year_ago, i + 1)
                      ELSE IF stats[1].mtime <= one_year_ago THEN "finding"
                      ELSE IF stats[1].mtime <= six_months_ago THEN "finding_low"
                      ELSE lockfile_loop_inclusive(f, stat, six_months_ago, one_year_ago, i + 1)

\* deps.py:129-171, the loop over the lockfile names from the i-th on: the
\* verdict of the first lockfile that is there (symbolic links are not),
\* can be stat'ed and is old.  stat maps a path to what stat() gives for it.
RECURSIVE lockfile_loop(_, _, _, _, _)
lockfile_loop(f, stat, six_months_ago, one_year_ago, i) ==
    IF i > Len(lockfiles) THEN "pass"
    ELSE LET files == glob(f, lockfiles[i])
         IN  IF files = {}
             THEN lockfile_loop(f, stat, six_months_ago, one_year_ago, i + 1)
             ELSE LET stats == file_stats(stat[CHOOSE path \in files : TRUE])
                  IN  IF stats = None
                      THEN lockfile_loop(f, stat, six_months_ago, one_year_ago, i + 1)
                      ELSE IF stats[1].mtime < one_year_ago THEN "finding"
                      ELSE IF stats[1].mtime < six_months_ago THEN "finding_low"
                      ELSE lockfile_loop(f, stat, six_months_ago, one_year_ago, i + 1)

\* OutdatedHintsCheck.run(ctx) when time.time() reads now (lines 126-127 read
\* the clock twice, microseconds apart; the two readings are taken as one)
outdated_hints_run(f, stat, config_weights, now) ==
    run("DEPS.OUTDATED_HINTS",
        lockfile_loop(f, stat, now - 180 * DAY, now - 365 * DAY, 1),
        config_weights)

\* deps.py:200-204 and 227-232: manager name and lockfile, in dict order
js_managers ==
    << <<"npm", "package-lock.json">>, <<"yarn", "yarn.lock">>,
       <<"pnpm", "pnpm-lock.yaml">> >>

py_managers ==
    << <<"poetry", "poetry.lock">>, <<"pipenv", "Pipfile.lock">>,
       <<"uv", "uv.lock">>, <<"pdm", "pdm.lock">> >>

\* [name for name, lock in managers.items() if ctx.fs.exists(lock)]
RECURSIVE managers_found(_, _)
managers_found(f, managers) ==
    IF managers = <<>> THEN <<>>
    ELSE (IF exists(f, <<Head(managers)[2]>>).result
          THEN <<Head(managers)[1]>> ELSE <<>>)
         \o managers_found(f, Tail(managers))

\* a check that reports a conflict only from three lockfiles on
multiple_package_managers_from_three(f, config_weights) ==
    LET js_found == managers_found(f, js_managers)
        py_found == managers_found(f, py_managers)
        id == "DEPS.MULTIPLE_PACKAGE_MANAGERS"
    IN  IF Len(js_found) > 2
        THEN [findings |-> run(id, "finding", config_weights), package_managers |-> js_found]
        ELSE IF Len(py_found) > 2
        THEN [findings |-> run(id, "finding", config_weights), package_managers |-> py_found]
        ELSE [findings |-> <<>>, package_managers |-> <<>>]

\* MultiplePackageManagersCheck.run(ctx): the findings, and the managers
\* that the evidence of the finding names
multiple_package_managers_run(f, config_weights) ==
    LET js_found == managers_found(f, js_managers)
        py_found == managers_found(f, py_managers)
        id == "DEPS.MULTIPLE_PACKAGE_MANAGERS"
    IN  IF Len(js_found) > 1
        THEN [findings |-> run(id, "finding", config_weights), package_managers |-> js_found]
        ELSE IF Len(py_found) > 1
        THEN [findings |-> run(id, "finding", config_weights), package_managers |-> py_found]
        ELSE [findings |-> <<>>, package_managers |-> <<>>]

-----------------------------------------------------------------------------
(* checks/docs.py, ci.py, tests.py, hygiene.py: the bodies of seven checks *)

\* list(ctx.fs.glob(pattern)) is non-empty for one of the patterns
any_glob(f, patterns) == \E i \in 1..Len(patterns) : glob(f, patterns[i]) # {}

\* `sub in text` for strings held as sequences of code points
Contains(text, sub) ==
    \E i \in 1..(Len(text) - Len(sub) + 1) : SubSeq(text, i, i + Len(sub) - 1) = sub

\* the string literals of tests.py:222-236 as code points
TOOL_RUFF == <<91, 116, 111, 111, 108, 46, 114, 117, 102, 102, 93>>

TOOL_BLACK == <<91, 116, 111, 111, 108, 46, 98, 108, 97, 99, 107, 93>>

TOOL_PYLINT == <<91, 116, 111, 111, 108, 46, 112, 121, 108, 105, 110, 116, 93>>

ESLINT_CONFIG == <<34, 101, 115, 108, 105, 110, 116, 67, 111, 110, 102, 105, 103, 34>>

\* `content and literal in content` for the Optional result of read_text_safe
content_has(read, literal) ==
    read.value # None /\ read.value[1] # <<>> /\ Contains(read.value[1], literal)

readme_patterns ==
    <<"README", "README.md", "README.rst", "README.txt", "readme.md", "Readme.md">>

license_patterns ==
    <<"LICENSE", "LICENSE.md", "LICENSE.txt", "LICENCE", "LICENCE.md", "license",
      "license.md">>

changelog_patterns ==
    <<"CHANGELOG.md", "CHANGELOG", "CHANGELOG.txt", "HISTORY.md", "HISTORY",
      "CHANGES.md", "CHANGES", "NEWS.md", "NEWS", "changelog.md">>

test_dirs == <<"tests", "test", "spec", "__tests__", "specs">>

test_patterns ==
    <<"**/*_test.py", "**/test_*.py", "**/*.test.js", "**/*.spec.js",
      "**/*.test.ts", "**/*.spec.ts", "**/*_test.go", "**/Test*.java",
      "**/*Test.java", "**/*_spec.rb">>

\* ci.py:37-44, the same table as ci_indicators of context.py
ci_configs == ci_indicators

linter_configs ==
    <<"ruff.toml", ".ruff.toml", ".flake8", ".pylintrc", "pylintrc", ".mypy.ini",
      "mypy.ini", ".eslintrc", ".eslintrc.js", ".eslintrc.json", ".eslintrc.yml",
      ".prettierrc", ".prettierrc.js", ".prettierrc.json", "biome.json",
      ".golangci.yml", ".golangci.yaml", "rustfmt.toml", ".rustfmt.toml",
      "clippy.toml", ".rubocop.yml", ".php-cs-fixer.php", "phpcs.xml">>

\* ReadmePresentCheck.run and LicensePresentCheck.run: written with glob
readme_present(f) == IF any_glob(f, readme_patterns) THEN "pass" ELSE "finding"

license_present(f) == IF any_glob(f, license_patterns) THEN "pass" ELSE "finding"

\* GitignorePresentCheck.run and ChangelogPresentCheck.run: written with exists
gitignore_present(f) ==
    IF exists(f, <<".gitignore">>).result THEN "pass" ELSE "finding"

changelog_present(f) ==
    IF exists(f, changelog_patterns).result THEN "pass" ELSE "finding"

\* CIConfigPresentCheck.run: a provider is found when one of its patterns exists
ci_config_present(f) ==
    IF \E i \in 1..Len(ci_configs) : exists(f, ci_configs[i][2]).result
    THEN "pass" ELSE "finding"

\* TestsDetectedCheck.run: a test directory (exists), else a test file (glob)
tests_detected(f) ==
    IF exists(f, test_dirs).result THEN "pass"
    ELSE IF any_glob(f, test_patterns) THEN "pass"
    ELSE "finding"

\* a linter check that takes any pyproject.toml for a linter configuration
linter_present_any_pyproject(f, files) ==
    IF exists(f, linter_configs).result THEN "pass"
    ELSE IF glob(f, "pyproject.toml") # {} THEN "pass"
    ELSE "finding"

\* LinterPresentCheck.run: a linter config file, else a tool section in
\* pyproject.toml, else "eslintConfig" in package.json.  files maps a path to
\* what the system calls on it give.
linter_present(f, files) ==
    IF exists(f, linter_configs).result THEN "pass"
    ELSE IF /\ glob(f, "pyproject.toml") # {}
            /\ LET read == read_text_safe(files["pyproject.toml"], DEFAULT_MAX_SIZE)
               IN  \/ content_has(read, TOOL_RUFF)
                   \/ content_has(read, TOOL_BLACK)
                   \/ content_has(read, TOOL_PYLINT)
         THEN "pass"
    ELSE IF /\ glob(f, "package.json") # {}
            /\ content_has(read_text_safe(files["package.json"], DEFAULT_MAX_SIZE),
                           ESLINT_CONFIG)
         THEN "pass"
    ELSE "finding"

\* the checks whose bodies are modelled file by file
ModelledChecks ==
    {"DOC.README_PRESENT", "DOC.LICENSE_PRESENT", "CI.CONFIG_PRESENT",
     "TESTS.DETECTED", "QUALITY.LINTER_PRESENT", "HYG.GITIGNORE_PRESENT",
     "REL.CHANGELOG_PRESENT"}

\* what the body of a modelled check finds in the repository
check_verdict(id, f, files) ==
    CASE id = "DOC.README_PRESENT" -> readme_present(f)
      [] id = "DOC.LICENSE_PRESENT" -> license_present(f)
      [] id = "CI.CONFIG_PRESENT" -> ci_config_present(f)
      [] id = "TESTS.DETECTED" -> tests_detected(f)
      [] id = "QUALITY.LINTER_PRESENT" -> linter_present(f, files)
      [] id = "HYG.GITIGNORE_PRESENT" -> gitignore_present(f)
      [] id = "REL.CHANGELOG_PRESENT" -> changelog_present(f)

\* the findings of the modelled checks, run in registry order on the FileIndex
\* that Context.build leaves
RECURSIVE run_checks(_, _, _, _)
run_checks(cs, f, files, config_weights) ==
    IF cs = <<>> THEN <<>>
    ELSE (IF Head(cs) \in ModelledChecks
          THEN run(Head(cs), check_verdict(Head(cs), f, files), config_weights)
          ELSE <<>>)
         \o run_checks(Tail(cs), f, files, config_weights)

-----------------------------------------------------------------------------
(* config.py: merge_cli_args, and the arguments scan_cmd hands to it *)

\* a merge that takes a min_score of 0 for no min_score
merge_cli_args_truthy_min_score(cfg, fail_on, min_score, only, skip, strict, offline, debug) ==
    [policy |->
        [fail_on |-> IF fail_on # None /\ fail_on[1] \in SeverityValues
                     THEN fail_on ELSE cfg.policy.fail_on,
         min_score |-> IF min_score # None /\ min_score[1] # 0
                       THEN min_score ELSE cfg.policy.min_score],
     checks |->
        [only |-> IF only # None /\ only[1] # {} THEN only[1] ELSE cfg.checks.only,
         skip |-> IF skip # None /\ skip[1] # {}
                  THEN cfg.checks.skip \cup skip[1] ELSE cfg.checks.skip],
     strict |-> strict, offline |-> offline, debug |-> debug]

\* Config.merge_cli_args: the Config after the call.  skip and only are held
\* as sets (list(set(...)) of line 113 has no defined order); Severity(fail_on)
\* raises ValueError for a string that is no severity, which is passed over.
merge_cli_args(cfg, fail_on, min_score, only, skip, strict, offline, debug) ==
    [policy |->
        [fail_on |-> IF fail_on # None /\ fail_on[1] \in SeverityValues
                     THEN fail_on ELSE cfg.policy.fail_on,
         min_score |-> IF min_score # None THEN min_score ELSE cfg.policy.min_score],
     checks |->
        [only |-> IF only # None /\ only[1] # {} THEN only[1] ELSE cfg.checks.only,
         skip |-> IF skip # None /\ skip[1] # {}
                  THEN cfg.checks.skip \cup skip[1] ELSE cfg.checks.skip],
     strict |-> strict, offline |-> offline, debug |-> debug]

\* cli.py:89-97: the options of the command line as scan_cmd passes them on;
\* --fail-on none and an empty --only or --skip are passed as None
scan_cmd_merge(cfg, cli) ==
    merge_cli_args(cfg,
                   IF cli.fail_on # "none" THEN Some(cli.fail_on) ELSE None,
                   cli.min_score,
                   IF cli.only # {} THEN Some(cli.only) ELSE None,
                   IF cli.skip # {} THEN Some(cli.skip) ELSE None,
                   cli.strict, cli.offline, cli.debug)

-----------------------------------------------------------------------------
(* cli.py: scan_cmd *)

EXIT_OK == 0
EXIT_POLICY_VIOLATED == 1
EXIT_ANALYSIS_ERROR == 2
EXIT_INTERNAL_ERROR == 3

\* Python's `a or b` on optional integers: b when a is None or 0 (line 123);
\* a Severity is a non-empty string and never falsy (line 124)
py_or(a, b) == IF a # None /\ a[1] # 0 THEN a ELSE b

\* what a step of the body can do: return, raise FileNotFoundError, or raise
\* another Exception
StepOutcomes == {"returns", "FileNotFoundError", "Exception"}

\* a scan_cmd whose two handlers are one: every exception exits 3
scan_cmd_one_handler(cfg_file, cli, scan_outcome, report_, write_outcome) ==
    LET cfg == scan_cmd_merge(cfg_file, cli)
        fail_severity == IF cli.fail_on # "none" THEN Some(cli.fail_on) ELSE None
        policy == check_policy_violation(report_.findings, report_.summary,
                                         py_or(cli.min_score, cfg.policy.min_score),
                                         IF fail_severity # None THEN fail_severity
                                         ELSE cfg.policy.fail_on)
    IN  IF scan_outcome # "returns"
        THEN [exit |-> EXIT_INTERNAL_ERROR, completed |-> FALSE, written |-> FALSE]
        ELSE IF cli.output /\ write_outcome # "returns"
        THEN [exit |-> EXIT_INTERNAL_ERROR, completed |-> TRUE, written |-> FALSE]
        ELSE [exit |-> IF policy.violated THEN EXIT_POLICY_VIOLATED ELSE EXIT_OK,
              completed |-> TRUE, written |-> TRUE]

\* scan_cmd, lines 81-143: the exit code, whether scan() returned a report and
\* whether the rendered report was written or printed.  scan_outcome is what
\* lines 82-104 do, write_outcome what Path(output).write_text of line 112
\* does.  sys.exit raises SystemExit, which is no Exception and passes both
\* handlers.
scan_cmd(cfg_file, cli, scan_outcome, report_, write_outcome) ==
    LET cfg == scan_cmd_merge(cfg_file, cli)
        fail_severity == IF cli.fail_on # "none" THEN Some(cli.fail_on) ELSE None
        policy == check_policy_violation(report_.findings, report_.summary,
                                         py_or(cli.min_score, cfg.policy.min_score),
                                         IF fail_severity # None THEN fail_severity
                                         ELSE cfg.policy.fail_on)
        handler(e) == IF e = "FileNotFoundError"
                      THEN EXIT_ANALYSIS_ERROR ELSE EXIT_INTERNAL_ERROR
    IN  IF scan_outcome # "returns"
        THEN [exit |-> handler(scan_outcome), completed |-> FALSE, written |-> FALSE]
        ELSE IF cli.output /\ write_outcome # "returns"
        THEN [exit |-> handler(write_outcome), completed |-> TRUE, written |-> FALSE]
        ELSE [exit |-> IF policy.violated THEN EXIT_POLICY_VIOLATED ELSE EXIT_OK,
              completed |-> TRUE, written |-> TRUE]

-----------------------------------------------------------------------------
(* Inputs of a scan *)

\* no Report yet: `returned` is set when scan returns one
NoReport == [returned |-> FALSE, findings |-> <<>>, summary |-> create_summary(<<>>)]

NoCall == [fn |-> "none", args |-> <<>>]

\* the checks whose verdict on the scanned repository may be other than
\* "pass": one per severity, two that tie on severity and default weight
GapChecks ==
    {"DOC.README_PRESENT", "DOC.CONTRIBUTING_PRESENT", "DOC.SECURITY_POLICY_PRESENT",
     "DEPS.OUTDATED_HINTS", "SEC.SECRETS_SUSPECTED", "HYG.EDITORCONFIG_PRESENT"}

\* ids a configuration may name in skip and only; "X.UNKNOWN" is no check
SkipIds == {"DOC.README_PRESENT", "DOC.SECURITY_POLICY_PRESENT", "SEC.SECRETS_SUSPECTED"}

OnlyIds == SkipIds \cup {"X.UNKNOWN"}

NoWeights == [id \in {} |-> 0]

\* checks.weights of the configuration file: absent, a heavier penalty, or a
\* positive number (the loader does not validate the sign)
WeightConfigs ==
    {NoWeights,
     [id \in {"DOC.SECURITY_POLICY_PRESENT"} |-> -8],
     [id \in {"DOC.README_PRESENT"} |-> 4]}

SubsetsUpTo(S, n) == {T \in SUBSET S : Cardinality(T) <= n}

Configs ==
    [skip : SubsetsUpTo(SkipIds, MaxSkip),
     only : SubsetsUpTo(OnlyIds, MaxOnly),
     weights : WeightConfigs,
     debug : BOOLEAN]

\* the tree of the scanned repository: a Python project with a README, a
\* symbolic link and a Travis configuration
ScanTrees ==
    {[path \in SamplePaths |->
        CASE path = "package-lock.json" -> "symlink"
          [] OTHER -> "file"]}

\* the git environments of the scanned repository: a working git, a git that
\* times out at the second subcommand, and a git executable that cannot be
\* started
ScanGitEnvs ==
    {[git_dir |-> TRUE, cmds |-> [k \in 1..3 |-> "ok"]],
     [git_dir |-> TRUE, cmds |-> [k \in 1..3 |-> IF k = 2 THEN "timeout" ELSE "ok"]],
     [git_dir |-> TRUE, cmds |-> [k \in 1..3 |-> "oserror"]]}

\* Context.build on every scanned repository
Builds == [tree \in ScanTrees |-> [env \in ScanGitEnvs |-> build(tree, env)]]

\* Config(): the defaults of config.py
DefaultConfig == [skip |-> {}, only |-> {}, weights |-> NoWeights, debug |-> FALSE]

-----------------------------------------------------------------------------
(* scanner.py: scan(path, config) *)

Init ==
    /\ pc = "build"
    /\ config \in Configs
    /\ checks = <<>>
    /\ idx = 1
    /\ findings = <<>>
    /\ ran = <<>>
    /\ log = <<>>
    /\ report = NoReport
    /\ call = NoCall
    /\ ret = <<>>
    /\ ctx = NoContext
    /\ file_index \in {FileIndex(tree) : tree \in ScanTrees}

\* number of executed checks that did not pass
Issues == Cardinality({i \in 1..Len(ran) : ran[i].verdict # "pass"})

\* the verdicts the bounded repository family allows the next check
AllowedVerdicts(id) ==
    IF id \in GapChecks /\ Issues < MaxIssues THEN Verdicts(id) ELSE {"pass"}

\* line 28: ctx = Context.build(path, config) returns
ContextBuild ==
    /\ pc = "build"
    /\ \E env \in ScanGitEnvs :
         /\ ~Builds[file_index.tree][env].raised
         /\ ctx' = Builds[file_index.tree][env].ctx
         /\ file_index' = Builds[file_index.tree][env].fs
    /\ pc' = "select"
    /\ UNCHANGED <<config, checks, idx, findings, ran, log, report, call, ret>>

\* line 28: Context.build raises; scan has no handler, the exception leaves it
ContextBuildRaises ==
    /\ pc = "build"
    /\ \E env \in ScanGitEnvs : Builds[file_index.tree][env].raised
    /\ pc' = "raised"
    /\ UNCHANGED <<config, checks, idx, findings, ran, log, report, call, ret, ctx, file_index>>

\* lines 31-39: the active checks, and the empty findings list
SelectChecks ==
    /\ pc = "select"
    /\ checks' = filter_checks(get_all_checks, config.skip, config.only)
    /\ idx' = 1
    /\ findings' = <<>>
    /\ pc' = "checks"
    /\ UNCHANGED <<config, ran, log, report, call, ret, ctx, file_index>>

\* a check that consumes the tag list of the snapshot while it runs
RunCheckReturns_consumes_tags ==
    /\ pc = "checks"
    /\ idx <= Len(checks)
    /\ \E v \in AllowedVerdicts(checks[idx]) \ {"raises"} :
         /\ findings' = findings \o run(checks[idx], v, config.weights)
         /\ ran' = Append(ran, [id |-> checks[idx], verdict |-> v])
    /\ idx' = idx + 1
    /\ ctx' = [ctx EXCEPT !.git.tags = <<>>]
    /\ UNCHANGED <<pc, config, checks, log, report, call, ret, file_index>>

\* lines 40-43: check.run(ctx) returns and the findings are extended.  The
\* check bodies read ctx.config.checks.weights, ctx.git.is_repo, ctx.git.tags
\* and ctx.root_path and assign to none of them.  What a check reads of the
\* files is its verdict; the entries its fs.exists calls add to the cache of
\* ctx.fs are followed in CacheSpec, not here.
RunCheckReturns ==
    /\ pc = "checks"
    /\ idx <= Len(checks)
    /\ \E v \in AllowedVerdicts(checks[idx]) \ {"raises"} :
         /\ findings' = findings \o run(checks[idx], v, config.weights)
         /\ ran' = Append(ran, [id |-> checks[idx], verdict |-> v])
    /\ idx' = idx + 1
    /\ UNCHANGED <<pc, config, checks, log, report, call, ret, ctx, file_index>>

\* no handler around check.run: the exception leaves scan()
RunCheckRaises_propagates ==
    /\ pc = "checks"
    /\ idx <= Len(checks)
    /\ "raises" \in AllowedVerdicts(checks[idx])
    /\ ran' = Append(ran, [id |-> checks[idx], verdict |-> "raises"])
    /\ pc' = "raised"
    /\ UNCHANGED <<config, checks, idx, findings, log, report, call, ret, ctx, file_index>>

\* a loop that stops at the first exception
RunCheckRaises_breaks ==
    /\ pc = "checks"
    /\ idx <= Len(checks)
    /\ "raises" \in AllowedVerdicts(checks[idx])
    /\ ran' = Append(ran, [id |-> checks[idx], verdict |-> "raises"])
    /\ log' = IF config.debug THEN Append(log, checks[idx]) ELSE log
    /\ idx' = Len(checks) + 1
    /\ UNCHANGED <<pc, config, checks, findings, report, call, ret, ctx, file_index>>

\* lines 44-47: check.run(ctx) raises; the except branch prints in debug
\* mode and the loop goes on
RunCheckRaises ==
    /\ pc = "checks"
    /\ idx <= Len(checks)
    /\ "raises" \in AllowedVerdicts(checks[idx])
    /\ ran' = Append(ran, [id |-> checks[idx], verdict |-> "raises"])
    /\ log' = IF config.debug THEN Append(log, checks[idx]) ELSE log
    /\ idx' = idx + 1
    /\ UNCHANGED <<pc, config, checks, findings, report, call, ret, ctx, file_index>>

\* a sort and summary that do not wait for the end of the loop
Aggregate_early ==
    /\ pc = "checks"
    /\ findings' = sort_findings(findings)
    /\ report' = [returned |-> TRUE, findings |-> findings',
                 summary |-> create_summary(findings')]
    /\ pc' = "done"
    /\ UNCHANGED <<config, checks, idx, ran, log, call, ret, ctx, file_index>>

\* lines 49-78: sort in place, summarise, build and return the Report
Aggregate ==
    /\ pc = "checks"
    /\ idx > Len(checks)
    /\ findings' = sort_findings(findings)
    /\ report' = [returned |-> TRUE, findings |-> findings',
                 summary |-> create_summary(findings')]
    /\ pc' = "done"
    /\ UNCHANGED <<config, checks, idx, ran, log, call, ret, ctx, file_index>>

Next ==
    \/ ContextBuild
    \/ ContextBuildRaises
    \/ SelectChecks
    \/ RunCheckReturns
    \/ RunCheckRaises
    \/ Aggregate

Spec == Init /\ [][Next]_vars

\* the interpreter keeps executing scan() once it has been called
FairSpec == Spec /\ WF_vars(Next)

-----------------------------------------------------------------------------
(* FnSpec: one call of a public function on an input from a bounded set *)

\* Finding(...) values as the tests of test_scanner.py build them
TestIds == {"TEST.1", "TEST.2"}

TestImpacts == {-200, -5, 5}

TestFindings ==
    [id : TestIds, severity : SeverityValues, category : {"docs"}, score_impact : TestImpacts]

SeqsUpTo(S, n) == UNION {[1..k -> S] : k \in 0..n}

FindingLists == SeqsUpTo(TestFindings, MaxLen)

\* check lists without repetition, in any order
CheckLists ==
    {cs \in SeqsUpTo(GapChecks, MaxChecks) :
        \A i, j \in 1..Len(cs) : i # j => cs[i] # cs[j]}

\* the reorderings of a list
Reorderings(L) ==
    {[i \in 1..Len(L) |-> L[p[i]]] : p \in Permutations(1..Len(L))}

FnInit ==
    /\ pc = "idle"
    /\ config = DefaultConfig
    /\ checks = <<>>
    /\ idx = 1
    /\ findings = <<>>
    /\ ran = <<>>
    /\ log = <<>>
    /\ report = NoReport
    /\ call = NoCall
    /\ ret = <<>>
    /\ ctx = NoContext
    /\ file_index = FileIndex([path \in SamplePaths |-> "absent"])

Call_calculate_score ==
    /\ call = NoCall
    /\ \E L \in FindingLists :
         /\ call' = [fn |-> "calculate_score", args |-> <<L>>]
         /\ ret' = calculate_score(L)
    /\ UNCHANGED scanVars

Call_calculate_grade ==
    /\ call = NoCall
    /\ \E score \in 0..100 :
         /\ call' = [fn |-> "calculate_grade", args |-> <<score>>]
         /\ ret' = calculate_grade(score)
    /\ UNCHANGED scanVars

Call_create_summary ==
    /\ call = NoCall
    /\ \E L \in FindingLists :
         /\ call' = [fn |-> "create_summary", args |-> <<L>>]
         /\ ret' = create_summary(L)
    /\ UNCHANGED scanVars

Call_sort_findings ==
    /\ call = NoCall
    /\ \E L \in FindingLists :
         /\ call' = [fn |-> "sort_findings", args |-> <<L>>]
         /\ ret' = sort_findings(L)
    /\ UNCHANGED scanVars

Call_filter_checks ==
    /\ call = NoCall
    /\ \E cs \in CheckLists, skip \in SubsetsUpTo(SkipIds, MaxSkip),
          only \in SubsetsUpTo(OnlyIds, MaxOnly) :
         /\ call' = [fn |-> "filter_checks", args |-> <<cs, skip, only>>]
         /\ ret' = filter_checks(cs, skip, only)
    /\ UNCHANGED scanVars

\* the findings handed to check_policy_violation: one of every severity
PolicyFindings == {f \in TestFindings : f.id = "TEST.1" /\ f.score_impact = -5}

PolicyLists == SeqsUpTo(PolicyFindings, MaxLen)

\* total scores and minimum scores, among them the pair 75 and 80
PolicyScores == {0, 75, 80, 100}

OptionalOf(S) == {None} \cup {Some(v) : v \in S}

Call_check_policy_violation ==
    /\ call = NoCall
    /\ \E L \in PolicyLists, score \in PolicyScores,
          min_score \in OptionalOf(PolicyScores), fail_on \in OptionalOf(SeverityValues) :
         LET summary == [create_summary(L) EXCEPT !.total_score = score]
         IN  /\ call' = [fn |-> "check_policy_violation",
                         args |-> <<L, summary, min_score, fail_on>>]
             /\ ret' = check_policy_violation(L, summary, min_score, fail_on)
    /\ UNCHANGED scanVars

\* the modification time of the lockfile, and the clock readings of the
\* invocations: on and one second past the 180 and 365 days after it
LockfileMtime == 0

ClockReadings == {0, 180 * DAY, 180 * DAY + 1, 365 * DAY, 365 * DAY + 1}

\* what stat() gives for the lockfile
LockfileStat(ok, kind) ==
    [stat_ok |-> ok, st_size |-> 1, mtime |-> LockfileMtime,
     is_symlink |-> (kind = "symlink"), read_ok |-> TRUE, bytes |-> <<72>>]

\* two invocations of OutdatedHintsCheck.run on one repository state, at the
\* clock readings now1 and now2
Call_outdated_hints_run ==
    /\ call = NoCall
    /\ \E kind \in EntryKinds, ok \in BOOLEAN, w \in WeightConfigs,
          now1 \in ClockReadings, now2 \in ClockReadings :
         LET f == FileIndex([path \in SamplePaths |->
                                IF path = "package-lock.json" THEN kind ELSE "absent"])
             stat == [path \in SamplePaths |-> LockfileStat(ok, kind)]
         IN  /\ call' = [fn |-> "OutdatedHintsCheck.run",
                         args |-> <<kind, ok, w, now1, now2>>]
             /\ ret' = <<outdated_hints_run(f, stat, w, now1),
                         outdated_hints_run(f, stat, w, now2)>>
    /\ UNCHANGED scanVars

Call_from_repo ==
    /\ call = NoCall
    /\ \E env \in GitEnvs :
         /\ call' = [fn |-> "GitInfo.from_repo", args |-> <<env>>]
         /\ ret' = from_repo(env)
    /\ UNCHANGED scanVars

\* what the system calls give for the path handed to read_text_safe: stat()
\* may fail, the size is small or on either side of the 1 MiB default, the
\* read may fail, and the content is up to MaxBytes of the sample bytes
MaxBytes == 2

SampleSizes == {0, 2, DEFAULT_MAX_SIZE, DEFAULT_MAX_SIZE + 1}

SampleFiles ==
    [stat_ok : BOOLEAN, st_size : SampleSizes, mtime : {LockfileMtime},
     is_symlink : {FALSE}, read_ok : BOOLEAN, bytes : SeqsUpTo(SampleBytes, MaxBytes)]

\* the max_size arguments: the default, and a limit of one byte
SampleMaxSizes == {DEFAULT_MAX_SIZE, 1}

Call_read_text_safe ==
    /\ call = NoCall
    /\ \E file \in SampleFiles, max_size \in SampleMaxSizes :
         /\ call' = [fn |-> "read_text_safe", args |-> <<file, max_size>>]
         /\ ret' = read_text_safe(file, max_size)
    /\ UNCHANGED scanVars

\* the root entries of the repositories handed to the modelled checks, and
\* the kinds each can have; tests is a directory with its test files
RepoPaths ==
    {"README.md", "LICENSE", ".gitignore", "tests", "pyproject.toml",
     ".travis.yml", "ruff.toml", "CHANGELOG.md"}

RepoKinds(path) ==
    CASE path = "tests" -> {"absent", "dir"}
      [] path \in {"README.md", ".gitignore"} -> {"absent", "file", "symlink"}
      [] OTHER -> {"absent", "file"}

RepoTrees == {tree \in [RepoPaths -> {"absent", "file", "symlink", "dir"}] :
                 \A path \in RepoPaths : tree[path] \in RepoKinds(path)}

\* the bytes of pyproject.toml: "[project]\n", or "[tool.ruff]\n"
PyprojectContents ==
    {<<91, 112, 114, 111, 106, 101, 99, 116, 93, 10>>,
     <<91, 116, 111, 111, 108, 46, 114, 117, 102, 102, 93, 10>>}

\* what the system calls give for a regular file with these bytes
RegularFile(bytes) ==
    [stat_ok |-> TRUE, st_size |-> Len(bytes), mtime |-> LockfileMtime,
     is_symlink |-> FALSE, read_ok |-> TRUE, bytes |-> bytes]

\* the modelled checks of a scan with the default configuration
Call_run_checks ==
    /\ call = NoCall
    /\ \E tree \in RepoTrees, pyproject \in PyprojectContents :
         LET f == detect(FileIndex(tree)).fs
             files == [path \in RepoPaths |-> RegularFile(pyproject)]
         IN  /\ call' = [fn |-> "run_checks", args |-> <<tree, pyproject>>]
             /\ ret' = run_checks(get_all_checks, f, files, NoWeights)
    /\ UNCHANGED scanVars

\* the lockfiles of the repositories handed to MultiplePackageManagersCheck
LockPaths ==
    {"package-lock.json", "yarn.lock", "pnpm-lock.yaml", "poetry.lock", "uv.lock"}

LockTrees == [LockPaths -> {"absent", "file"}]

Call_multiple_package_managers_run ==
    /\ call = NoCall
    /\ \E tree \in LockTrees :
         /\ call' = [fn |-> "MultiplePackageManagersCheck.run", args |-> <<tree>>]
         /\ ret' = multiple_package_managers_run(detect(FileIndex(tree)).fs, NoWeights)
    /\ UNCHANGED scanVars

\* two lockfiles of the list with their own modification times, read 400
\* days after time 0: ages of 400, 200 and 10 days
TwoLockfiles == {"package-lock.json", "yarn.lock"}

LockfileMtimes == {0, 200 * DAY, 390 * DAY}

ReadingTime == 400 * DAY

Call_outdated_hints_two_lockfiles ==
    /\ call = NoCall
    /\ \E tree \in [TwoLockfiles -> EntryKinds], mtimes \in [TwoLockfiles -> LockfileMtimes],
          w \in WeightConfigs \cup {[id \in {"DEPS.OUTDATED_HINTS"} |-> -9]} :
         LET stat == [path \in TwoLockfiles |->
                         [LockfileStat(TRUE, tree[path]) EXCEPT !.mtime = mtimes[path]]]
         IN  /\ call' = [fn |-> "OutdatedHintsCheck.run two lockfiles",
                         args |-> <<tree, mtimes, w>>]
             /\ ret' = outdated_hints_run(FileIndex(tree), stat, w, ReadingTime)
    /\ UNCHANGED scanVars

\* configurations as loaded from a file, and command lines
FileConfigs ==
    [policy : [fail_on : OptionalOf({"high"}), min_score : OptionalOf({50})],
     checks : [only : SUBSET {"DOC.README_PRESENT"},
               skip : SUBSET {"DOC.README_PRESENT", "CI.BADGES_PRESENT"}],
     strict : {FALSE}, offline : {TRUE}, debug : {FALSE}]

CommandLines ==
    [fail_on : {"none"} \cup SeverityValues,
     min_score : OptionalOf({0, 80}),
     only : SUBSET {"CI.CONFIG_PRESENT"},
     skip : SUBSET {"CI.BADGES_PRESENT", "TESTS.DETECTED"},
     strict : {FALSE}, offline : {TRUE}, debug : BOOLEAN]

Call_merge_cli_args ==
    /\ call = NoCall
    /\ \E cfg \in FileConfigs, cli \in CommandLines :
         /\ call' = [fn |-> "merge_cli_args", args |-> <<cfg, cli>>]
         /\ ret' = scan_cmd_merge(cfg, cli)
    /\ UNCHANGED scanVars

\* configurations, command lines and reports of scan_cmd: a report has no
\* finding or one finding of weight -5, so a total score of 100 or 95
ScanCmdConfigs ==
    [policy : [fail_on : OptionalOf({"high"}), min_score : OptionalOf({97})],
     checks : [only : {{}}, skip : {{}}],
     strict : {FALSE}, offline : {TRUE}, debug : {FALSE}]

ScanCmdLines ==
    [fail_on : {"none"} \cup SeverityValues,
     min_score : OptionalOf({0, 98}),
     only : {{}}, skip : {{}},
     strict : {FALSE}, offline : {TRUE}, debug : {FALSE},
     output : BOOLEAN]

ScanCmdReports ==
    {[findings |-> L, summary |-> create_summary(L)] : L \in SeqsUpTo(PolicyFindings, 1)}

Call_scan_cmd ==
    /\ call = NoCall
    /\ \E cfg \in ScanCmdConfigs, cli \in ScanCmdLines, scan_outcome \in StepOutcomes,
          report_ \in ScanCmdReports, write_outcome \in StepOutcomes :
         /\ scan_outcome # "returns" => report_.findings = <<>> /\ write_outcome = "returns"
         /\ ~cli.output => write_outcome = "returns"
         /\ call' = [fn |-> "scan_cmd",
                     args |-> <<cfg, cli, scan_outcome, report_, write_outcome>>]
         /\ ret' = scan_cmd(cfg, cli, scan_outcome, report_, write_outcome)
    /\ UNCHANGED scanVars

\* exists(pattern) and list(glob(pattern)) on one new FileIndex of a tree that
\* does not change between the two calls
Call_exists_and_glob ==
    /\ call = NoCall
    /\ \E tree \in Trees, pattern \in {"README.md", "README*", "*.py"} :
         /\ call' = [fn |-> "exists and glob", args |-> <<tree, pattern>>]
         /\ ret' = [exists |-> exists(FileIndex(tree), <<pattern>>).result,
                    glob |-> glob(exists(FileIndex(tree), <<pattern>>).fs, pattern)]
    /\ UNCHANGED scanVars

FnNext ==
    \/ Call_calculate_score
    \/ Call_calculate_grade
    \/ Call_create_summary
    \/ Call_sort_findings
    \/ Call_filter_checks
    \/ Call_check_policy_violation
    \/ Call_outdated_hints_run
    \/ Call_from_repo
    \/ Call_read_text_safe
    \/ Call_run_checks
    \/ Call_multiple_package_managers_run
    \/ Call_outdated_hints_two_lockfiles
    \/ Call_merge_cli_args
    \/ Call_scan_cmd
    \/ Call_exists_and_glob

FnSpec == FnInit /\ [][FnNext]_vars

-----------------------------------------------------------------------------
(* CacheSpec: one FileIndex queried with exists() while the tree under its *)
(* root changes                                                            *)

\* the patterns the FileIndex is asked for
QueryPatterns == {"README*", "*.py", "package-lock.json"}

CacheInit ==
    /\ pc = "index"
    /\ config = DefaultConfig
    /\ checks = <<>>
    /\ idx = 1
    /\ findings = <<>>
    /\ ran = <<>>
    /\ log = <<>>
    /\ report = NoReport
    /\ call = NoCall
    /\ ret = <<>>
    /\ ctx = NoContext
    /\ file_index \in {FileIndex(tree) : tree \in Trees}

\* exists(pattern) is called and returns; `hit` records whether the pattern
\* was in the cache when the call was made
Exists ==
    /\ \E pattern \in QueryPatterns :
         LET r == exists(file_index, <<pattern>>)
         IN  /\ call' = [fn |-> "exists", args |-> <<pattern>>,
                         hit |-> (pattern \in DOMAIN file_index.cache)]
             /\ ret' = r.result
             /\ file_index' = r.fs
    /\ UNCHANGED <<pc, config, checks, idx, findings, ran, log, report, ctx>>

\* another process creates, replaces or removes an entry of the tree
TreeChange ==
    /\ \E path \in SamplePaths, kind \in EntryKinds :
         /\ file_index.tree[path] # kind
         /\ file_index' = [file_index EXCEPT !.tree[path] = kind]
    /\ UNCHANGED <<pc, config, checks, idx, findings, ran, log, report, ctx, call, ret>>

CacheNext ==
    \/ Exists
    \/ TreeChange

CacheSpec == CacheInit /\ [][CacheNext]_vars

-----------------------------------------------------------------------------
(* Properties *)

\* what an executed check contributed to the findings
Contribution(r) ==
    IF r.verdict = "raises" THEN <<>> ELSE run(r.id, r.verdict, config.weights)

RECURSIVE Contributions(_)
Contributions(rs) ==
    IF rs = <<>> THEN <<>> ELSE Contribution(Head(rs)) \o Contributions(Tail(rs))

Raised == {i \in 1..Len(ran) : ran[i].verdict = "raises"}

\* C1: a check whose run raises contributes no finding, the loop goes on to
\* the remaining active checks, and the findings are exactly the ones the
\* checks that returned contribute, in the order in which they ran.
C1_FaultingCheckIsIsolated ==
    pc \in {"checks", "done"} =>
        /\ Len(ran) <= Len(checks)
        /\ \A i \in 1..Len(ran) : ran[i].id = checks[i]
        /\ pc = "checks" => Len(ran) = idx - 1 /\ findings = Contributions(ran)
        /\ pc = "done" =>
             /\ Len(ran) = Len(checks)
             /\ report.findings = sort_findings(Contributions(ran))

\* a finished scan in which a check raised between two checks with findings
C1_Witness ==
    /\ pc = "done"
    /\ \E i, j, k \in 1..Len(ran) :
         /\ i < j /\ j < k
         /\ ran[i].verdict = "finding"
         /\ ran[j].verdict = "raises"
         /\ ran[k].verdict = "finding"
    /\ Len(report.findings) = 2

\* C2: once Context.build has returned, the scan reaches the end of
\* aggregation and returns a Report, whichever checks are active and
\* whichever of them raise.
C2_ReportIsProduced == (pc = "select") ~> (pc = "done" /\ report.returned)

\* a returned Report of a scan in which two checks raised
C2_Witness == pc = "done" /\ report.returned /\ Cardinality(Raised) >= 2

\* the sum of the impacts, by index
RECURSIVE SumImpacts(_, _)
SumImpacts(fs, n) == IF n = 0 THEN 0 ELSE fs[n].score_impact + SumImpacts(fs, n - 1)

\* C3: calculate_score(findings) = max(0, min(100, 100 + sum of impacts)),
\* so it is 100 for the empty list and always within 0..100.
C3_ScoreIsClampedSum ==
    call.fn = "calculate_score" =>
        LET L == call.args[1]
            total == 100 + SumImpacts(L, Len(L))
        IN /\ ret = (IF total < 0 THEN 0 ELSE IF total > 100 THEN 100 ELSE total)
           /\ ret >= 0 /\ ret <= 100
           /\ L = <<>> => ret = 100

\* a list with a positive impact whose impacts sum below -100
C3_Witness ==
    /\ call.fn = "calculate_score"
    /\ \E i \in 1..Len(call.args[1]) : call.args[1][i].score_impact > 0
    /\ 100 + SumImpacts(call.args[1], Len(call.args[1])) < 0
    /\ ret = 0

\* C4: the score of every reordering of a finding list equals the score of
\* the list, and so do total_score and grade of its Summary.
C4_ScoreIsOrderIndependent ==
    /\ call.fn = "calculate_score" =>
         \A P \in Reorderings(call.args[1]) : calculate_score(P) = ret
    /\ call.fn = "create_summary" =>
         \A P \in Reorderings(call.args[1]) :
            /\ create_summary(P).total_score = ret.total_score
            /\ create_summary(P).grade = ret.grade

\* a summary of two findings with different impacts, one of them positive
C4_Witness ==
    /\ call.fn = "create_summary"
    /\ Len(call.args[1]) = 2
    /\ call.args[1][1].score_impact < 0
    /\ call.args[1][2].score_impact > 0
    /\ ret.total_score = 100 + call.args[1][1].score_impact + call.args[1][2].score_impact

\* C5: for every score in 0..100 the grade is A iff 90..100, B iff 80..89,
\* C iff 70..79, D iff 55..69, F iff 0..54.
C5_GradeBands ==
    call.fn = "calculate_grade" =>
        LET score == call.args[1] IN
        /\ ret \in {"A", "B", "C", "D", "F"}
        /\ ret = "A" <=> (90 <= score /\ score <= 100)
        /\ ret = "B" <=> (80 <= score /\ score <= 89)
        /\ ret = "C" <=> (70 <= score /\ score <= 79)
        /\ ret = "D" <=> (55 <= score /\ score <= 69)
        /\ ret = "F" <=> (0 <= score /\ score <= 54)

\* the lowest score of band D
C5_Witness == call.fn = "calculate_grade" /\ call.args[1] = 55 /\ ret = "D"

\* the order info < low < medium < high < critical
SeverityRank(s) ==
    CASE s = "info" -> 0 [] s = "low" -> 1 [] s = "medium" -> 2
      [] s = "high" -> 3 [] s = "critical" -> 4

\* fs is sorted by severity descending, then score_impact ascending
SortedBySeverityThenImpact(fs) ==
    \A i, j \in 1..Len(fs) :
        i < j =>
            \/ SeverityRank(fs[i].severity) > SeverityRank(fs[j].severity)
            \/ /\ fs[i].severity = fs[j].severity
               /\ fs[i].score_impact <= fs[j].score_impact

\* C6: the findings of every returned Report are sorted by severity
\* descending (critical first) and, within a severity, by score_impact
\* ascending (most negative first).
C6_ReportFindingsAreSorted ==
    pc = "done" => SortedBySeverityThenImpact(report.findings)

\* a Report of three findings, two of one severity with different impacts,
\* that the checks produced in another order
C6_Witness ==
    /\ pc = "done"
    /\ Len(report.findings) = 3
    /\ report.findings # Contributions(ran)
    /\ \E i \in 1..2 :
         /\ report.findings[i].severity = report.findings[i + 1].severity
         /\ report.findings[i].score_impact < report.findings[i + 1].score_impact
    /\ ~SortedBySeverityThenImpact(Contributions(ran))

\* the (severity, score_impact) pairs of a finding list, in order
Keys(fs) == [i \in 1..Len(fs) |-> <<fs[i].severity, fs[i].score_impact>>]

\* C7 as stated: sorting any reordering of the findings gives the same
\* sequence of findings, ties on severity and score_impact included.
C7_Original ==
    call.fn = "sort_findings" =>
        \A P \in Reorderings(call.args[1]) : sort_findings(P) = ret

\* C7 amended: sorting any reordering of the findings gives the same
\* sequence of (severity, score_impact) pairs; findings that tie on both
\* keep the order in which they were produced.
C7_SortedKeysAreOrderIndependent ==
    call.fn = "sort_findings" =>
        LET L == call.args[1] IN
        /\ \A P \in Reorderings(L) : Keys(sort_findings(P)) = Keys(ret)
        /\ \E p \in Permutations(1..Len(L)) :
             /\ \A i \in 1..Len(L) : ret[i] = L[p[i]]
             /\ \A i, j \in 1..Len(L) :
                  (i < j /\ Keys(ret)[i] = Keys(ret)[j]) => p[i] < p[j] \/ L[p[i]] = L[p[j]]

\* two different findings that tie on severity and score_impact, sorted
C7_Witness ==
    /\ call.fn = "sort_findings"
    /\ Len(call.args[1]) = 2
    /\ call.args[1][1] # call.args[1][2]
    /\ Keys(call.args[1])[1] = Keys(call.args[1])[2]
    /\ ret = call.args[1]

\* C8 as stated: with a non-empty only list the result is exactly the input
\* checks whose id is in only; the skip list is ignored.
C8_Original ==
    (call.fn = "filter_checks" /\ call.args[3] # {}) =>
        ret = SelectSeq(call.args[1], LAMBDA c : c \in call.args[3])

\* C8 amended: with a non-empty only list the result is exactly the input
\* checks whose id is in only and not in skip; a check named in both is
\* dropped.
C8_OnlyMinusSkip ==
    (call.fn = "filter_checks" /\ call.args[3] # {}) =>
        ret = SelectSeq(call.args[1],
                        LAMBDA c : c \in call.args[3] /\ c \notin call.args[2])

\* an input check named in both lists is missing from the result
C8_Witness ==
    /\ call.fn = "filter_checks"
    /\ Len(call.args[1]) >= 2
    /\ \E i \in 1..Len(call.args[1]) :
         /\ call.args[1][i] \in call.args[2] \cap call.args[3]
         /\ \A k \in 1..Len(ret) : ret[k] # call.args[1][i]

\* position of a check in the registry and in a list without repetition
RegistryIndex(id) == CHOOSE i \in 1..Len(ALL_CHECKS) : ALL_CHECKS[i] = id

IndexIn(cs, id) == CHOOSE i \in 1..Len(cs) : cs[i] = id

InRegistryOrder(cs) ==
    \A i, j \in 1..Len(cs) : i < j => RegistryIndex(cs[i]) < RegistryIndex(cs[j])

\* C9 as stated: the result is in registration order whatever the order of
\* the input list.
C9_Original == call.fn = "filter_checks" => InRegistryOrder(ret)

\* C9 amended: the result keeps the order of the input list; it is in
\* registration order when the input is, as for get_all_checks().
C9_InputOrderIsKept ==
    call.fn = "filter_checks" =>
        LET cs == call.args[1] IN
        /\ \A k \in 1..Len(ret) : \E i \in 1..Len(cs) : cs[i] = ret[k]
        /\ \A i, j \in 1..Len(ret) :
             i < j => IndexIn(cs, ret[i]) < IndexIn(cs, ret[j])
        /\ InRegistryOrder(cs) => InRegistryOrder(ret)

\* an input list against the registration order, returned as it came
C9_Witness ==
    /\ call.fn = "filter_checks"
    /\ Len(ret) >= 2
    /\ ret = call.args[1]
    /\ ~InRegistryOrder(ret)

\* C10: every finding of a returned Report comes from a selected check: its
\* id is not in the skip list and, when the only list is non-empty, is in
\* the only list.
C10_FindingsComeFromSelectedChecks ==
    pc = "done" =>
        \A i \in 1..Len(report.findings) :
            /\ report.findings[i].id \notin config.skip
            /\ config.only # {} => report.findings[i].id \in config.only
            /\ \E k \in 1..Len(checks) : checks[k] = report.findings[i].id

\* a Report with a finding, under a configuration with both lists set
C10_Witness ==
    /\ pc = "done"
    /\ config.skip # {}
    /\ config.only # {}
    /\ Len(report.findings) >= 1

\* a call of check_policy_violation has returned
PolicyCalled == call.fn = "check_policy_violation"

\* some finding of the call has a severity at or above fail_on in the order
\* info < low < medium < high < critical
AtOrAbove(fl, fail_on) ==
    \E i \in 1..Len(fl) : SeverityIndex(fl[i].severity) >= SeverityIndex(fail_on)

\* C11: with min_score unset and fail_on set, the policy is reported violated
\* only if some finding has a severity at or above fail_on in the order
\* info < low < medium < high < critical.
C11_ViolatedOnlyAtOrAboveFailOn ==
    (PolicyCalled /\ call.args[3] = None /\ call.args[4] # None /\ ret.violated)
        => AtOrAbove(call.args[1], call.args[4][1])

\* C12: with fail_on set and the min_score rule not firing, the policy is
\* reported violated whenever some finding has a severity at or above fail_on.
C12_ViolatedWheneverAtOrAboveFailOn ==
    (/\ PolicyCalled
     /\ call.args[4] # None
     /\ ~(call.args[3] # None /\ call.args[2].total_score < call.args[3][1])
     /\ AtOrAbove(call.args[1], call.args[4][1]))
        => ret.violated

\* C13: with fail_on unset, the policy is violated exactly when min_score is
\* set and the total score is strictly below it.
C13_MinScoreRuleIsStrict ==
    (PolicyCalled /\ call.args[4] = None)
        => (ret.violated <=>
                (call.args[3] # None /\ call.args[2].total_score < call.args[3][1]))

\* a call without fail_on whose score equals the minimum of 80 has returned
\* and reported no violation
C13_Witness ==
    /\ PolicyCalled
    /\ call.args[4] = None
    /\ call.args[3] = Some(80)
    /\ call.args[2].total_score = 80
    /\ ~ret.violated

\* C14: every finding of every returned Report has a score_impact that is zero
\* or negative, whatever the configuration, weight overrides included.
C14_ScoreImpactsAreNonPositive ==
    report.returned =>
        \A i \in 1..Len(report.findings) : report.findings[i].score_impact <= 0

OutdatedCalled == call.fn = "OutdatedHintsCheck.run"

\* C16 as stated: two invocations of a check on identical repository state
\* and configuration return identical findings, whenever they are invoked.
C16_Original == OutdatedCalled => ret[1] = ret[2]

\* the age band of the lockfile at a clock reading: up to 180 days, more than
\* 180 and up to 365 days, more than 365 days
AgeBand(now) ==
    IF now - LockfileMtime > 365 * DAY THEN 2
    ELSE IF now - LockfileMtime > 180 * DAY THEN 1
    ELSE 0

\* C16: two invocations of OutdatedHintsCheck.run on identical repository
\* state and configuration return identical findings when their clock readings
\* put the age of the lockfile in the same band.
C16_SameAgeBandSameFindings ==
    (OutdatedCalled /\ AgeBand(call.args[4]) = AgeBand(call.args[5]))
        => ret[1] = ret[2]

\* two invocations at different clock readings of the same band have both
\* returned the finding of a lockfile older than 180 days
C16_Witness ==
    /\ OutdatedCalled
    /\ call.args[4] # call.args[5]
    /\ AgeBand(call.args[4]) = 1
    /\ AgeBand(call.args[5]) = 1
    /\ ret[1] # <<>>
    /\ ret[1] = ret[2]

\* the first subcommand of the environment that ends in TimeoutExpired or
\* FileNotFoundError with every earlier one completed, or 0 if there is none
FirstFailure(env) ==
    IF \E k \in 1..3 : /\ env.cmds[k] \in {"timeout", "missing"}
                       /\ \A j \in 1..(k - 1) : env.cmds[j] \in {"ok", "nonzero"}
    THEN CHOOSE k \in 1..3 : /\ env.cmds[k] \in {"timeout", "missing"}
                             /\ \A j \in 1..(k - 1) : env.cmds[j] \in {"ok", "nonzero"}
    ELSE 0

\* from_repo was called in a git directory and a subcommand timed out or
\* found no git executable
GitFailed ==
    /\ call.fn = "GitInfo.from_repo"
    /\ call.args[1].git_dir
    /\ FirstFailure(call.args[1]) > 0

\* C17 as stated: when a git subcommand times out or git is missing,
\* from_repo does not raise and returns the defaulted not-a-repository facts,
\* whichever of the three subcommands failed.
C17_Original == GitFailed => (~ret.raised /\ ret.info = DefaultGitInfo)

\* C17: when a git subcommand times out or git is missing, from_repo does
\* not raise; it returns is_repo true, the branch and the 12-character head
\* SHA of the subcommands that succeeded before the failing one, and the
\* defaults (absent, no tags) for the failing and the later ones.
C17_FailureKeepsEarlierFacts ==
    GitFailed =>
        LET env == call.args[1]
            k == FirstFailure(env)
        IN  /\ ~ret.raised
            /\ ret.info.is_repo
            /\ ret.info.branch =
                  IF 1 < k /\ env.cmds[1] = "ok"
                  THEN Some(<<"m", "a", "i", "n">>) ELSE None
            /\ ret.info.head_sha =
                  IF 2 < k /\ env.cmds[2] = "ok"
                  THEN Some(<<"4", "f", "2", "a", "9", "c", "0", "d", "7", "e", "1", "b">>)
                  ELSE None
            /\ ret.info.tags = <<>>

\* from_repo has returned after its third subcommand timed out, with the
\* branch and the head SHA of the first two
C17_Witness ==
    /\ GitFailed
    /\ call.args[1].cmds = <<"ok", "ok", "timeout">>
    /\ ret.info.is_repo
    /\ ret.info.branch # None
    /\ ret.info.head_sha # None

\* read_text_safe has been called
ReadCalled == call.fn = "read_text_safe"

\* the file of the call can be stat'ed and read and is within max_size
Readable(file, max_size) ==
    file.stat_ok /\ file.read_ok /\ file.st_size <= max_size

\* C18 as stated: read_text_safe never raises, returns None on an I/O
\* error, on bytes it cannot decode and on a size above max_size, and
\* returns the text only for a readable, decodable file within max_size.
C18_Original ==
    ReadCalled =>
        LET file == call.args[1]
            max_size == call.args[2]
        IN  /\ ~ret.raised
            /\ (ret.value # None) <=>
                   (Readable(file, max_size) /\ ~undecodable(file.bytes))

\* C18: read_text_safe never raises; it returns None exactly on an I/O error
\* of stat or read and on a size above max_size; otherwise it returns the
\* text, in which every undecodable byte is replaced by U+FFFD.
C18_UndecodableBytesAreReplaced ==
    ReadCalled =>
        LET file == call.args[1]
            max_size == call.args[2]
        IN  /\ ~ret.raised
            /\ (ret.value # None) <=> Readable(file, max_size)
            /\ (Readable(file, max_size) /\ undecodable(file.bytes)) =>
                   \E i \in 1..Len(ret.value[1]) : ret.value[1][i] = REPLACEMENT
            /\ (Readable(file, max_size) /\ ~undecodable(file.bytes)) =>
                   \A i \in 1..Len(ret.value[1]) : ret.value[1][i] # REPLACEMENT

\* a readable file within the default max_size that holds the byte 0xFF has
\* been read and a text was returned
C18_Witness ==
    /\ ReadCalled
    /\ Readable(call.args[1], call.args[2])
    /\ call.args[2] = DEFAULT_MAX_SIZE
    /\ call.args[1].bytes = <<72, 255>>
    /\ ret.value = Some(<<72, REPLACEMENT>>)

\* C19: within one FileIndex an entry of the exists cache is never altered or
\* removed, and a call of exists(pattern) returns the entry cached for the
\* pattern, also after the tree has changed.
C19_ExistsIsMemoized ==
    [][/\ \A p \in DOMAIN file_index.cache :
            /\ p \in DOMAIN file_index'.cache
            /\ file_index'.cache[p] = file_index.cache[p]
       /\ call'.fn = "exists" =>
            /\ call'.args[1] \in DOMAIN file_index'.cache
            /\ ret' = file_index'.cache[call'.args[1]]]_vars

\* a call of exists found its pattern in the cache and returned FALSE although
\* a file matching the pattern is now in the tree
C19_Witness ==
    /\ call.fn = "exists"
    /\ call.hit
    /\ ret = FALSE
    /\ root_glob(file_index.tree, call.args[1]) # {}

\* the number of findings of a list that satisfy a test
CountWhere(fl, Test(_)) == Len(SelectSeq(fl, Test))

\* C20: in the summary of a Report, counts_by_severity has exactly the five
\* severities as keys, the ones without findings with count zero, and
\* counts_by_category has exactly the categories of the findings as keys; each
\* value is the number of findings of that severity or category.
C20_SummaryCounts ==
    report.returned =>
        LET by_severity == report.summary.counts_by_severity
            by_category == report.summary.counts_by_category
            fl == report.findings
        IN  /\ DOMAIN by_severity = {"info", "low", "medium", "high", "critical"}
            /\ \A s \in DOMAIN by_severity :
                   by_severity[s] = CountWhere(fl, LAMBDA f : f.severity = s)
            /\ DOMAIN by_category = {fl[i].category : i \in 1..Len(fl)}
            /\ \A c \in DOMAIN by_category :
                   by_category[c] = CountWhere(fl, LAMBDA f : f.category = c)

\* a Report has been returned whose findings are of two categories, two of
\* them of one severity, and of no critical severity
C20_Witness ==
    /\ report.returned
    /\ Cardinality(DOMAIN report.summary.counts_by_category) = 2
    /\ \E s \in SeverityValues : report.summary.counts_by_severity[s] = 2
    /\ report.summary.counts_by_severity["critical"] = 0

\* C21: every invocation of a check's run returns at most one finding, so a
\* returned Report holds at most one finding for a check id and at most as
\* many findings as there are active checks.
C21_AtMostOneFindingPerCheck ==
    /\ \A i \in 1..Len(ran) : Len(Contribution(ran[i])) <= 1
    /\ report.returned =>
          /\ \A i, j \in 1..Len(report.findings) :
                 i # j => report.findings[i].id # report.findings[j].id
          /\ Len(report.findings) <= Len(checks)

\* a Report with several findings has been returned
C21_Witness ==
    /\ report.returned
    /\ Len(report.findings) >= 2
    /\ Len(report.findings) < Len(checks)

\* the ids of a list of findings
Ids(fl) == {fl[i].id : i \in 1..Len(fl)}

\* the checks ran on a repository that holds only README.md, LICENSE,
\* .gitignore, the tests directory and a pyproject.toml without tool section
MinimalRepoChecked ==
    /\ call.fn = "run_checks"
    /\ call.args[1] =
          [path \in RepoPaths |->
              CASE path = "tests" -> "dir"
                [] path \in {"README.md", "LICENSE", ".gitignore", "pyproject.toml"} -> "file"
                [] OTHER -> "absent"]
    /\ call.args[2] = <<91, 112, 114, 111, 106, 101, 99, 116, 93, 10>>

\* C22: on a repository that holds only README.md, LICENSE, .gitignore, a
\* tests directory and a pyproject.toml, the findings include those of the
\* CI, linter and changelog checks and none of the README, LICENSE, gitignore
\* and tests checks.
C22_MinimalRepoFindings ==
    MinimalRepoChecked =>
        /\ {"CI.CONFIG_PRESENT", "QUALITY.LINTER_PRESENT", "REL.CHANGELOG_PRESENT"}
               \subseteq Ids(ret)
        /\ Ids(ret) \cap {"DOC.README_PRESENT", "DOC.LICENSE_PRESENT",
                           "HYG.GITIGNORE_PRESENT", "TESTS.DETECTED"} = {}

\* the checks have run on the minimal repository and returned three findings
C22_Witness == MinimalRepoChecked /\ Len(ret) = 3

\* the managers of a table whose lockfile is in the tree
Present(tree, managers) ==
    {managers[i][1] : i \in {j \in 1..Len(managers) :
        managers[j][2] \in DOMAIN tree /\ tree[managers[j][2]] # "absent"}}

\* C23: with two or more JavaScript lockfiles MultiplePackageManagersCheck
\* returns exactly one finding whose evidence names exactly the managers of
\* the lockfiles present; with at most one lockfile of each ecosystem it
\* returns no finding.
C23_MultiplePackageManagers ==
    call.fn = "MultiplePackageManagersCheck.run" =>
        LET js == Present(call.args[1], js_managers)
            py == Present(call.args[1], py_managers)
        IN  /\ Cardinality(js) >= 2 =>
                  /\ Len(ret.findings) = 1
                  /\ ret.findings[1].id = "DEPS.MULTIPLE_PACKAGE_MANAGERS"
                  /\ {ret.package_managers[i] : i \in 1..Len(ret.package_managers)} = js
                  /\ Len(ret.package_managers) = Cardinality(js)
            /\ (Cardinality(js) <= 1 /\ Cardinality(py) <= 1) => ret.findings = <<>>

\* the check has run on a repository with package-lock.json and yarn.lock and
\* returned one finding that names npm and yarn
C23_Witness ==
    /\ call.fn = "MultiplePackageManagersCheck.run"
    /\ Present(call.args[1], js_managers) = {"npm", "yarn"}
    /\ Len(ret.findings) = 1
    /\ ret.package_managers = <<"npm", "yarn">>

\* OutdatedHintsCheck.run has been invoked on a repository with up to two
\* lockfiles
TwoLockfilesChecked == call.fn = "OutdatedHintsCheck.run two lockfiles"

C25_CommandLineWins ==
    call.fn = "merge_cli_args" =>
        LET cfg == call.args[1]
            cli == call.args[2]
        IN  /\ cli.fail_on # "none" => ret.policy.fail_on = Some(cli.fail_on)
            /\ cli.min_score # None => ret.policy.min_score = cli.min_score
            /\ cli.only # {} => ret.checks.only = cli.only
            /\ ret.checks.skip = cfg.checks.skip \cup cli.skip

\* a command line with --fail-on, --min-score 0, --only and --skip has been
\* merged into a file configuration that sets all four differently
C25_Witness ==
    /\ call.fn = "merge_cli_args"
    /\ call.args[1].policy = [fail_on |-> Some("high"), min_score |-> Some(50)]
    /\ call.args[1].checks.only = {"DOC.README_PRESENT"}
    /\ call.args[1].checks.skip = {"DOC.README_PRESENT", "CI.BADGES_PRESENT"}
    /\ call.args[2].fail_on = "low"
    /\ call.args[2].min_score = Some(0)
    /\ call.args[2].only = {"CI.CONFIG_PRESENT"}
    /\ call.args[2].skip = {"CI.BADGES_PRESENT", "TESTS.DETECTED"}
    /\ ret.policy = [fail_on |-> Some("low"), min_score |-> Some(0)]
    /\ Cardinality(ret.checks.skip) = 3

\* the policy decision on the report of a scan_cmd call: the command line's
\* min_score and fail_on where given, the file's otherwise
ScanCmdViolated ==
    LET cfg == call.args[1]
        cli == call.args[2]
        report_ == call.args[4]
    IN  check_policy_violation(
            report_.findings, report_.summary,
            IF cli.min_score # None THEN cli.min_score ELSE cfg.policy.min_score,
            IF cli.fail_on # "none" THEN Some(cli.fail_on) ELSE cfg.policy.fail_on).violated

\* C26 as stated: exit 0 exactly when the scan completes and no policy is
\* violated, 1 exactly when it completes and a policy is violated, and a
\* completed scan never exits 2 or 3.
C26_Original ==
    call.fn = "scan_cmd" =>
        /\ ret.exit \in {EXIT_OK, EXIT_POLICY_VIOLATED, EXIT_ANALYSIS_ERROR, EXIT_INTERNAL_ERROR}
        /\ ret.exit = EXIT_OK <=> (ret.completed /\ ~ScanCmdViolated)
        /\ ret.exit = EXIT_POLICY_VIOLATED <=> (ret.completed /\ ScanCmdViolated)
        /\ ret.completed => ret.exit \notin {EXIT_ANALYSIS_ERROR, EXIT_INTERNAL_ERROR}

\* C26, amended: the exit code is 0 exactly when the scan completes, the
\* report is written or printed and no policy is violated; 1 exactly when the
\* scan completes, the report is written or printed and a policy is violated;
\* 2 exactly when a FileNotFoundError is raised, by the scan or by writing the
\* output file; 3 exactly when another exception is raised; there is no other
\* exit code.
C26_ExitCodes ==
    call.fn = "scan_cmd" =>
        LET raised == IF call.args[3] # "returns" THEN call.args[3]
                      ELSE IF call.args[2].output THEN call.args[5] ELSE "returns"
        IN  /\ ret.exit \in {EXIT_OK, EXIT_POLICY_VIOLATED, EXIT_ANALYSIS_ERROR,
                              EXIT_INTERNAL_ERROR}
            /\ ret.exit = EXIT_OK <=> (ret.completed /\ ret.written /\ ~ScanCmdViolated)
            /\ ret.exit = EXIT_POLICY_VIOLATED
                  <=> (ret.completed /\ ret.written /\ ScanCmdViolated)
            /\ ret.exit = EXIT_ANALYSIS_ERROR <=> raised = "FileNotFoundError"
            /\ ret.exit = EXIT_INTERNAL_ERROR <=> raised = "Exception"
            /\ ret.written <=> raised = "returns"

\* a scan that completed with no policy violated, whose output file could
\* not be opened for want of its directory: exit 2
C26_Witness ==
    /\ call.fn = "scan_cmd"
    /\ call.args[3] = "returns"
    /\ call.args[2].output
    /\ call.args[5] = "FileNotFoundError"
    /\ ~ScanCmdViolated
    /\ ret.completed
    /\ ret.exit = EXIT_ANALYSIS_ERROR

\* C27: a scan goes from Context Build to Check Execution to Aggregation and
\* never back; a check runs only once the context is built, the context is
\* built only in the first phase, and the findings are sorted and summarised
\* only when every active check has run or faulted, after which the scan is
\* done.
C27_PhasesInOrder ==
    [][/\ pc' # pc =>
            <<pc, pc'>> \in {<<"build", "select">>, <<"select", "checks">>,
                             <<"checks", "done">>, <<"build", "raised">>,
                             <<"checks", "raised">>}
       /\ ctx' # ctx => pc = "build" /\ ~ctx.built /\ ctx'.built
       /\ ran' # ran => pc = "checks" /\ ctx.built /\ Len(ran') = Len(ran) + 1
       /\ (report' # report \/ pc' = "done") =>
            /\ pc = "checks" /\ pc' = "done"
            /\ ctx.built
            /\ ~report.returned /\ report'.returned
            /\ Len(ran) = Len(checks)
            /\ \A i \in 1..Len(checks) : ran[i].id = checks[i]]_vars

\* a finished scan of several active checks, one of which faulted and one of
\* which returned a finding
C27_Witness ==
    /\ pc = "done"
    /\ ctx.built
    /\ report.returned
    /\ Len(checks) > 2
    /\ Len(ran) = Len(checks)
    /\ \E i \in 1..Len(ran) : ran[i].verdict = "raises"
    /\ report.findings # <<>>

\* C28: the score_impact of every finding OutdatedHintsCheck returns is the
\* weight configured for its check id where one is configured, and the
\* check's default_weight otherwise.
C28_ScoreImpactIsConfiguredWeight ==
    TwoLockfilesChecked =>
        \A i \in 1..Len(ret) : ret[i].score_impact = get_weight(ret[i].id, call.args[3])

\* C29: on a FileIndex that does not follow symbolic links, over an unchanged
\* tree, exists(pattern) is true exactly when glob(pattern) yields a path.
C29_ExistsAgreesWithGlob ==
    call.fn = "exists and glob" => (ret.exists <=> ret.glob # {})

\* C30: when the only list is non-empty and names no registered check, the
\* scan selects and runs no check, and the Report it returns has no finding,
\* total_score 100 and grade A, whatever the checks would find.
C30_UnknownOnlyRunsNothing ==
    (config.only # {} /\ config.only \cap CheckIds = {}) =>
        /\ ran = <<>>
        /\ pc \in {"checks", "done"} => checks = <<>>
        /\ pc = "done" =>
              /\ report.returned
              /\ report.findings = <<>>
              /\ report.summary.total_score = 100
              /\ report.summary.grade = "A"

\* a scan with only = ["X.UNKNOWN"] has returned its report
C30_Witness ==
    /\ config.only = {"X.UNKNOWN"}
    /\ pc = "done"
    /\ report.returned
    /\ report.findings = <<>>
    /\ report.summary.total_score = 100

====
